---------------------------- MODULE Spec2Model ----------------------------
(***************************************************************************)
(* State-machine model of the chat client's conversation-state engine      *)
(* (src/App.tsx) together with the backend service wrapper                 *)
(* (src/services/geminiService.ts) and the UI guards of MessageInput,      *)
(* ChatWindow and ChatMessage that decide which handlers can be invoked.   *)
(*                                                                         *)
(* Conventions                                                             *)
(*  - JavaScript strings are TLA+ strings; arrays are sequences (1-based,  *)
(*    so a JS index k is the TLA+ index k + 1 and findIndex's -1 is 0).    *)
(*  - A value that is `T | null` in the source is a sequence of length 0   *)
(*    (null) or 1 (the value); the error string uses the marker Null.      *)
(*  - An optional field of a message is a missing record field.            *)
(*  - A string of localStorage is a document: what JSON.parse makes of it  *)
(*    (kind "array" or "object" and the parsed value) or kind "invalid"    *)
(*    and the text for a text JSON.parse rejects.                          *)
(*  - Every run of handleSendMessage is a turn; `turns` keeps the local    *)
(*    variables of each run across its awaits and `pc` its position.       *)
(***************************************************************************)
EXTENDS Integers, Sequences, FiniteSets, TLC

VARIABLES
    sessions,         \* useState<ChatSession[]>            App.tsx:22
    activeSessionId,  \* useState<string | null>            App.tsx:23
    isLoading,        \* useState(false)                    App.tsx:24
    error,            \* useState<string | null>            App.tsx:25
    editingMessage,   \* useState<{id, content} | null>     App.tsx:26
    isCancelled,      \* isCancelledRef.current             App.tsx:28
    turns,            \* the runs of handleSendMessage, in order of start
    timers,           \* setTimeout callbacks queued by handleRegenerate
    now,              \* the last value Date.now() returned
    storage,          \* localStorage's item 'chatSessions'
    saveFailed,       \* the save effect last ended in its catch   App.tsx:54
    app,              \* "unmounted", "running" or "crashed" (render threw)
    initError,        \* geminiService's initError   geminiService.ts:4
    apiKeyError,      \* useState<string | null>     App.tsx:27
    calls             \* the methods of ai.models called so far

vars == <<sessions, activeSessionId, isLoading, error, editingMessage,
          isCancelled, turns, timers, now, storage, saveFailed, app,
          initError, apiKeyError, calls>>

-----------------------------------------------------------------------------
(* Bounds of the model *)

\* runs of handleSendMessage in one behaviour
MaxTurns == 1

\* chunks one text stream delivers
MaxChunks == 2

-----------------------------------------------------------------------------
(* Values *)

Null == "<null>"

NO_MODIFICATION == "NO_MODIFICATION"

\* userInput.substring(0, 40), promptForImage.substring(0, 40)
TitleLen == 40

Min(a, b) == IF a < b THEN a ELSE b

\* String.prototype.substring(from, to) for 0 <= from <= to
Substring(s, from, to) == SubSeq(s, from + 1, Min(to, Len(s)))

\* String.prototype.startsWith
StartsWith(s, p) == Len(s) >= Len(p) /\ SubSeq(s, 1, Len(p)) = p

\* String.prototype.includes
Includes(s, k) ==
    \E i \in 1..(Len(s) - Len(k) + 1) : SubSeq(s, i, i + Len(k) - 1) = k

UpperCase == "ABCDEFGHIJKLMNOPQRSTUVWXYZ"

LowerCase == "abcdefghijklmnopqrstuvwxyz"

LowerChar(c) ==
    IF \E i \in 1..Len(UpperCase) : SubSeq(UpperCase, i, i) = c
    THEN LET i == CHOOSE j \in 1..Len(UpperCase) : SubSeq(UpperCase, j, j) = c
         IN  SubSeq(LowerCase, i, i)
    ELSE c

\* String.prototype.toLowerCase
RECURSIVE ToLowerCase(_)
ToLowerCase(s) ==
    IF Len(s) = 0 THEN ""
    ELSE LowerChar(SubSeq(s, 1, 1)) \o ToLowerCase(SubSeq(s, 2, Len(s)))

\* String.prototype.trim, for the blank characters the inputs here can hold
RECURSIVE Trim(_)
Trim(s) ==
    IF Len(s) = 0 THEN ""
    ELSE IF SubSeq(s, 1, 1) = " " THEN Trim(SubSeq(s, 2, Len(s)))
    ELSE IF SubSeq(s, Len(s), Len(s)) = " " THEN Trim(SubSeq(s, 1, Len(s) - 1))
    ELSE s

\* the File objects the user can attach
Files == { [name |-> "a.png", type |-> "image/png"] }

AttachmentLists == { <<>> } \cup { <<f>> : f \in Files }

\* what the user can type (MessageInput trims it before sending)
Inputs == { "hi", "Draw a cat" }

\* what generateContent can answer to the prompt-refinement request
RefinedPrompts == { NO_MODIFICATION, "a cat with a hat" }

\* the image bytes generateImages can return
ImageBytes == { "iVBOR" }

ChunkA ==
    [ text |-> "a",
      groundingChunks |-> << [web |-> [uri |-> "u1", title |-> "T1"]] >> ]

ChunkB ==
    [ text |-> "",
      groundingChunks |-> << [web |-> [uri |-> "u2", title |-> "T1"]],
                             [web |-> [uri |-> "u1", title |-> "T2"]],
                             [web |-> [uri |-> "",   title |-> "T3"]] >> ]

ChunkC ==
    [ text |-> "b", groundingChunks |-> << >> ]

\* the GenerateContentResponse chunks a stream can deliver
Chunks == { ChunkA, ChunkB, ChunkC }

\* what the stream iterator can throw: an Error with a message, or a non-Error
StreamInterrupted == [isError |-> TRUE, message |-> "stream interrupted"]

NotAnError == [isError |-> FALSE, message |-> ""]

Thrown == { StreamInterrupted, NotAnError }

StreamOpenError ==
    [ isError |-> TRUE,
      message |-> "Failed to get response from AI. Please check your connection or API key." ]

ImageError ==
    [ isError |-> TRUE,
      message |-> "Failed to generate the image. Please try a different prompt." ]

\* the keywords written in Latin letters; the four Japanese ones are not
\* expressible as strings here and match no text of Inputs
imageKeywords ==
    << "generate", "draw", "create", "show me a picture of" >>

-----------------------------------------------------------------------------
(* Sequence helpers for the array methods the code uses *)

\* Array.prototype.findIndex on ids: the first index, 0 when there is none
FindIndex(msgs, id) ==
    IF \E i \in 1..Len(msgs) : msgs[i].id = id
    THEN CHOOSE i \in 1..Len(msgs) :
            /\ msgs[i].id = id
            /\ \A j \in 1..(i - 1) : msgs[j].id # id
    ELSE 0

\* sessions.find(s => s.id === id) || null
FindSession(ss, id) ==
    IF \E i \in 1..Len(ss) : ss[i].id = id
    THEN << ss[CHOOSE i \in 1..Len(ss) :
                 /\ ss[i].id = id
                 /\ \A j \in 1..(i - 1) : ss[j].id # id] >>
    ELSE << >>

MapSeq(s, F(_)) == [i \in 1..Len(s) |-> F(s[i])]


\* { ...msg, ...patch }
Spread(msg, patch) ==
    [f \in (DOMAIN msg) \cup (DOMAIN patch) |->
        IF f \in DOMAIN patch THEN patch[f] ELSE msg[f]]

\* optional chaining: msg.attachments?.some(a => a.type.startsWith('image/'))
HasImageAttachment(msg) ==
    /\ "attachments" \in DOMAIN msg
    /\ \E i \in 1..Len(msg.attachments) :
          StartsWith(msg.attachments[i].type, "image/")

-----------------------------------------------------------------------------
(* The JavaScript Map of the stream loop: entries in insertion order *)

MapHas(m, k) == \E i \in 1..Len(m) : m[i].key = k

\* a list that appends whatever it is given
MapSetAppends(m, k, v) == Append(m, [key |-> k, value |-> v])

\* Map.prototype.set: a new key is appended, a known key keeps its place and
\* takes the new value
MapSet(m, k, v) ==
    IF MapHas(m, k)
    THEN [i \in 1..Len(m) |-> IF m[i].key = k THEN [key |-> k, value |-> v] ELSE m[i]]
    ELSE Append(m, [key |-> k, value |-> v])

\* Array.from(map.values()).map(web => ({ web }))
MapValues(m) == [i \in 1..Len(m) |-> [web |-> m[i].value]]

\* groundingChunks.forEach(chunk => { if (chunk.web?.uri) map.set(uri, web) })
RECURSIVE ForEachGrounding(_, _)
ForEachGrounding(m, cands) ==
    IF cands = << >> THEN m
    ELSE LET c == Head(cands)
             m1 == IF "web" \in DOMAIN c /\ c.web.uri # ""
                   THEN MapSet(m, c.web.uri, c.web)
                   ELSE m
         IN  ForEachGrounding(m1, Tail(cands))

\* `=` for `+=`
AppendTextOverwrites(fullResponse, chunk) ==
    IF chunk.text # "" THEN chunk.text ELSE fullResponse

\* if (chunkText) fullResponse += chunkText
AppendText(fullResponse, chunk) ==
    IF chunk.text # "" THEN fullResponse \o chunk.text ELSE fullResponse

-----------------------------------------------------------------------------
(* messagesToHistory: the Content[] sent to the text backend *)

\* the conversion without its filter
messagesToHistoryUnfiltered(messages) ==
    [i \in 1..Len(messages) |->
        [role |-> messages[i].author,
         parts |-> << [text |-> messages[i].content] >>]]

messagesToHistory(messages) ==
    LET kept == SelectSeq(messages, LAMBDA msg : msg.content # "")
    IN  [i \in 1..Len(kept) |->
            [role |-> kept[i].author, parts |-> << [text |-> kept[i].content] >>]]

-----------------------------------------------------------------------------
(* Pieces of handleSendMessage *)

SessionId(t) == "session-" \o ToString(t)
UserId(t)    == "user-" \o ToString(t)
ModelId(t)   == "model-" \o ToString(t)

\* a title that gets its ellipsis from 40 characters on
SessionTitleFromLimit(userInput) ==
    Substring(userInput, 0, TitleLen)
        \o (IF Len(userInput) >= TitleLen THEN "..." ELSE "")

\* userInput.substring(0, 40) + (userInput.length > 40 ? '...' : '')
SessionTitle(userInput) ==
    Substring(userInput, 0, TitleLen)
        \o (IF Len(userInput) > TitleLen THEN "..." ELSE "")

\* a new session that starts out pinned
NewSessionPinned(id, userInput) ==
    [id |-> id, title |-> SessionTitle(userInput), messages |-> << >>,
     isPinned |-> TRUE]

NewSession(id, userInput) ==
    [id |-> id, title |-> SessionTitle(userInput), messages |-> << >>,
     isPinned |-> FALSE]

UserMessage(t, userInput, attachments) ==
    [id |-> UserId(t), author |-> "user", content |-> userInput,
     attachments |-> [i \in 1..Len(attachments) |->
                         [name |-> attachments[i].name,
                          url  |-> "blob:" \o attachments[i].name,
                          type |-> attachments[i].type]],
     files |-> attachments]

ModelMessagePlaceholder(t) ==
    [id |-> ModelId(t), author |-> "model", content |-> "",
     groundingChunks |-> << >>]

\* setSessions(prev => prev.map(s => s.id === id ? {...s, messages: updater(s.messages)} : s))
\* a map that gives every session the new messages
IsTargetAlways(s, id) == TRUE

\* s.id === currentSessionId
IsTarget(s, id) == s.id = id

UpdateSessionMessages(ss, id, updater(_)) ==
    [i \in 1..Len(ss) |->
        IF IsTarget(ss[i], id)
        THEN [ss[i] EXCEPT !.messages = updater(ss[i].messages)]
        ELSE ss[i]]

\* prev.map(msg => msg.id === modelMessageId ? {...msg, ...patch} : msg)
PatchMessage(msgs, id, patch) ==
    [i \in 1..Len(msgs) |->
        IF msgs[i].id = id THEN Spread(msgs[i], patch) ELSE msgs[i]]

\* slice(0, editIndex + 1): the edited message is kept
BaseMessagesKeepsEdited(sessionToUpdate, editing) ==
    IF editing # << >>
    THEN LET editIndex == FindIndex(sessionToUpdate.messages, editing[1].id)
         IN  IF editIndex # 0
             THEN SubSeq(sessionToUpdate.messages, 1, editIndex)
             ELSE sessionToUpdate.messages
    ELSE sessionToUpdate.messages

\* the base messages of the turn: the slice before the edited message, or all
BaseMessages(sessionToUpdate, editing) ==
    IF editing # << >>
    THEN LET editIndex == FindIndex(sessionToUpdate.messages, editing[1].id)
         IN  IF editIndex # 0
             THEN SubSeq(sessionToUpdate.messages, 1, editIndex - 1)
             ELSE sessionToUpdate.messages
    ELSE sessionToUpdate.messages

\* the condition under which the modification classifier is asked
\* the condition without its test of the turn's attachments
IsFollowUpCandidateAnyAttachments(baseMessages, attachments) ==
    /\ Len(baseMessages) > 1
    /\ baseMessages[Len(baseMessages)].author = "model"
    /\ HasImageAttachment(baseMessages[Len(baseMessages)])
    /\ baseMessages[Len(baseMessages) - 1].author = "user"

IsFollowUpCandidate(baseMessages, attachments) ==
    /\ Len(baseMessages) > 1
    /\ baseMessages[Len(baseMessages)].author = "model"
    /\ HasImageAttachment(baseMessages[Len(baseMessages)])
    /\ baseMessages[Len(baseMessages) - 1].author = "user"
    /\ Len(attachments) = 0

IsDirectImageRequest(userInput, attachments) ==
    /\ \E k \in 1..Len(imageKeywords) :
          Includes(ToLowerCase(userInput), imageKeywords[k])
    /\ Len(attachments) = 0

\* the loop without its cancellation check
LoopNeverBreaks(cancelled) == FALSE

\* the loop's `if (isCancelledRef.current) break`
LoopBreaks(cancelled) == cancelled

\* the image branch's `if (isCancelledRef.current) return`
ImageReturns(cancelled) == cancelled

\* a catch block that swallows every failure
CatchNeverSurfaces(cancelled) == FALSE

\* the catch block without its cancellation check
CatchAlwaysSurfaces(cancelled) == TRUE

\* the catch block's `if (!isCancelledRef.current)`
CatchSurfaces(cancelled) == ~cancelled

\* err instanceof Error ? err.message : 'An unknown error occurred.'
ErrorMessage(err) ==
    IF err.isError THEN err.message ELSE "An unknown error occurred."

-----------------------------------------------------------------------------
(* Initial state: the mount effects have run.  The stored record is absent *)
(* or holds one earlier conversation, made at the clock values 0 and 1.     *)

-----------------------------------------------------------------------------
(* JSON and localStorage *)

\* {} : an object without properties
EmptyObject == [x \in { } |-> x]

\* a serialization that keeps only the text of a message
StringifyMessageTextOnly(m) ==
    [id |-> m.id, author |-> m.author, content |-> m.content]

\* JSON.stringify of a message: a File has no enumerable property of its own
\* and is written as {}
StringifyMessage(m) ==
    IF "files" \in DOMAIN m
    THEN [m EXCEPT !.files = [n \in 1..Len(m.files) |-> EmptyObject]]
    ELSE m

StringifySession(s) ==
    [s EXCEPT !.messages =
        [n \in 1..Len(s.messages) |-> StringifyMessage(s.messages[n])]]

\* JSON.stringify(sessions)
Stringify(ss) ==
    [ kind  |-> "array", text |-> "",
      value |-> [i \in 1..Len(ss) |-> StringifySession(ss[i])] ]

\* a text JSON.parse throws on
InvalidText(text) == [kind |-> "invalid", text |-> text, value |-> << >>]

\* the text of a JSON object that is no array: {"version":"1"}. A value
\* that is no array is kept as NotAnArray(value), which no array equals
NotAnArray(object) == << [object |-> object] >>

ObjectText ==
    [ kind |-> "object", text |-> "",
      value |-> NotAnArray([version |-> "1"]) ]

\* JSON.parse throws a SyntaxError
ParseThrows(doc) == doc.kind = "invalid"

\* JSON.parse(text)
Parse(doc) == doc.value

\* `if (storedSessions)`: the item is there and is not the empty string
Truthy(item) == item # << >> /\ item[1] # InvalidText("")

StoredImage ==
    [ name |-> "Generated image for \"Draw a cat...\"",
      url  |-> "data:image/png;base64,iVBOR",
      type |-> "image/png" ]

\* a conversation of a text turn and an image turn
StoredChat ==
    [ id |-> SessionId(0), title |-> "hi", isPinned |-> FALSE,
      messages |->
        << [id |-> UserId(0), author |-> "user", content |-> "hi",
            attachments |-> << >>, files |-> << >>],
           [id |-> ModelId(0), author |-> "model", content |-> "hello",
            groundingChunks |-> << >>],
           [id |-> UserId(1), author |-> "user", content |-> "Draw a cat",
            attachments |-> << >>, files |-> << >>],
           [id |-> ModelId(1), author |-> "model",
            content |-> "Here is the image you requested.",
            groundingChunks |-> << >>,
            attachments |-> << StoredImage >>] >> ]

\* a conversation of two text turns, the second cancelled before its first
\* chunk
StoredCancelled ==
    [ id |-> SessionId(0), title |-> "hi", isPinned |-> FALSE,
      messages |->
        << [id |-> UserId(0), author |-> "user", content |-> "hi",
            attachments |-> << >>, files |-> << >>],
           [id |-> ModelId(0), author |-> "model", content |-> "hello",
            groundingChunks |-> << >>],
           [id |-> UserId(1), author |-> "user", content |-> "hi",
            attachments |-> << >>, files |-> << >>],
           [id |-> ModelId(1), author |-> "model", content |-> "",
            groundingChunks |-> << >>] >> ]

\* what JSON.parse(localStorage.getItem('chatSessions')) can give at mount
StoredCollections == { << >>, << StoredChat >>, << StoredCancelled >> }

Init ==
    /\ sessions \in StoredCollections
    /\ activeSessionId = << >>
    /\ isLoading = FALSE
    /\ error = Null
    /\ editingMessage = << >>
    /\ isCancelled = FALSE
    /\ turns = << >>
    /\ timers = << >>
    /\ now = 2
    /\ storage = << Stringify(sessions) >>
    /\ saveFailed = FALSE
    /\ app = "running"
    /\ initError = << >>
    /\ apiKeyError = Null
    /\ calls = { }

\* const activeSession = sessions.find(s => s.id === activeSessionId) || null
activeSession ==
    IF activeSessionId = << >> THEN << >>
    ELSE FindSession(sessions, activeSessionId[1])

\* const messages = activeSession ? activeSession.messages : []
messages == IF activeSession = << >> THEN << >> ELSE activeSession[1].messages

\* ChatWindow: isGenerating = isLoading && index === messages.length - 1
IsGenerating(i) == isLoading /\ i = Len(messages)

-----------------------------------------------------------------------------
(* handleSendMessage up to its first await *)

\* lines 137-176 once the follow-up question is settled: the image branch up
\* to `await generateImage`, or the text branch up to `await streamChatResponse`
Route(ss, sid, mid, userInput, attachments, isFollowUp) ==
    IF IsDirectImageRequest(userInput, attachments) \/ isFollowUp
    THEN [ sessions |->
             UpdateSessionMessages(ss, sid,
                 LAMBDA prev : PatchMessage(prev, mid,
                                   [content |-> "Generating your image..."])),
           pc |-> "image" ]
    ELSE [ sessions |-> ss, pc |-> "open" ]

\* the closure (cActive, cSession, cEditing) is what the render that created
\* this handleSendMessage saw of activeSessionId, sessions and editingMessage
\* and `clock` the values Date.now() can return in this run
\* a handleSendMessage that leaves the session as it is until the backend
\* has answered
OptimisticUpdateDeferred(ss, sid, baseMessages, userMessage, placeholder) == ss

\* an update that puts the session back when the collection has none with
\* this id
OptimisticUpdateUpserts(ss, sid, baseMessages, userMessage, placeholder) ==
    IF \E n \in 1..Len(ss) : ss[n].id = sid
    THEN UpdateSessionMessages(ss, sid,
             LAMBDA prev : baseMessages \o << userMessage, placeholder >>)
    ELSE << [ id |-> sid, title |-> userMessage.content, isPinned |-> FALSE,
              messages |-> baseMessages \o << userMessage, placeholder >> ] >>
            \o ss

\* updateSessionMessages(() => [...baseMessages, userMessage,
\* modelMessagePlaceholder]), the statement before the try block
OptimisticUpdate(ss, sid, baseMessages, userMessage, placeholder) ==
    UpdateSessionMessages(ss, sid,
        LAMBDA prev : baseMessages \o << userMessage, placeholder >>)

\* URL.createObjectURL(file) throws a TypeError unless `file` is a Blob:
\* the {} that JSON.parse gives for a stored File is none
CreateObjectURLThrows(attachments) ==
    \E k \in 1..Len(attachments) : DOMAIN attachments[k] = { }

HandleSendMessage(userInput, attachments, cActive, cSession, cEditing, clock) ==
    IF cEditing # << >> /\ Len(attachments) > 0
    THEN UNCHANGED <<sessions, activeSessionId, isLoading, error,
                     editingMessage, isCancelled, turns, now>>
    ELSE IF CreateObjectURLThrows(attachments)
    THEN \* lines 69-88 have run when line 96 throws, outside the try block:
         \* the promise of handleSendMessage is rejected and nothing follows
         \E t \in clock :
        LET create == cActive = << >> \/ cSession = << >>
        IN  /\ now' = t
            /\ error' = Null
            /\ isLoading' = TRUE
            /\ isCancelled' = FALSE
            /\ sessions' =
                 IF create
                 THEN << NewSession(SessionId(t), userInput) >> \o sessions
                 ELSE sessions
            /\ activeSessionId' =
                 IF create THEN << SessionId(t) >> ELSE activeSessionId
            /\ editingMessage' = editingMessage
            /\ turns' = Append(turns,
                 [ pc |-> "rejected",
                   currentSessionId |->
                       IF create THEN SessionId(t) ELSE cActive[1],
                   modelMessageId |-> "",
                   userInput |-> userInput,
                   attachments |-> attachments,
                   baseMessages |-> << >>,
                   historyForAPI |-> << >>,
                   promptForImage |-> "",
                   originalPrompt |-> "",
                   fullResponse |-> "",
                   groundingChunksMap |-> << >>,
                   chunks |-> << >>,
                   threw |-> TRUE,
                   outcome |-> "none" ])
    ELSE \E t \in clock :
        LET create == cActive = << >> \/ cSession = << >>
            currentSessionId == IF create THEN SessionId(t) ELSE cActive[1]
            sessionToUpdate ==
                IF create THEN NewSession(currentSessionId, userInput)
                ELSE cSession[1]
            userMessage == UserMessage(t, userInput, attachments)
            modelMessagePlaceholder == ModelMessagePlaceholder(t)
            modelMessageId == modelMessagePlaceholder.id
            baseMessages == BaseMessages(sessionToUpdate, cEditing)
            historyForAPI == messagesToHistory(baseMessages)
            created == IF create THEN << sessionToUpdate >> \o sessions
                       ELSE sessions
            optimistic ==
                OptimisticUpdate(created, currentSessionId, baseMessages,
                                 userMessage, modelMessagePlaceholder)
            askClassifier == IsFollowUpCandidate(baseMessages, attachments)
            routed == Route(optimistic, currentSessionId, modelMessageId,
                            userInput, attachments, FALSE)
        IN  /\ now' = t
            /\ error' = Null
            /\ isLoading' = TRUE
            /\ isCancelled' = FALSE
            /\ activeSessionId' =
                 IF create THEN << currentSessionId >> ELSE activeSessionId
            /\ editingMessage' =
                 IF cEditing # << >> THEN << >> ELSE editingMessage
            /\ sessions' = IF askClassifier THEN optimistic ELSE routed.sessions
            /\ turns' = Append(turns,
                 [ pc |-> IF askClassifier THEN "classify" ELSE routed.pc,
                   currentSessionId |-> currentSessionId,
                   modelMessageId |-> modelMessageId,
                   userInput |-> userInput,
                   attachments |-> attachments,
                   baseMessages |-> baseMessages,
                   historyForAPI |-> historyForAPI,
                   promptForImage |-> userInput,
                   originalPrompt |->
                       IF askClassifier
                       THEN baseMessages[Len(baseMessages) - 1].content
                       ELSE "",
                   fullResponse |-> "",
                   groundingChunksMap |-> << >>,
                   chunks |-> << >>,
                   threw |-> FALSE,
                   outcome |-> "none" ])

-----------------------------------------------------------------------------
(* User actions *)

\* MessageInput.handleSubmit -> onSendMessage(input.trim(), attachments)
Submit(limit) ==
    /\ ~isLoading
    /\ Len(turns) + Len(timers) < limit
    /\ \E input \in Inputs, attachments \in AttachmentLists :
         /\ Trim(input) # "" \/ Len(attachments) > 0
         /\ HandleSendMessage(Trim(input), attachments, activeSessionId,
                              activeSession, editingMessage, { now + 1 })
    /\ UNCHANGED timers

\* the regenerate button of a model message -> handleRegenerate(message.id)
Regenerate(limit) ==
    /\ Len(turns) + Len(timers) < limit
    /\ \E k \in 1..Len(messages) :
         /\ messages[k].author = "model"
         /\ Trim(messages[k].content) # ""
         /\ ~IsGenerating(k)
         /\ LET modelMessageIndex == FindIndex(messages, messages[k].id)
            IN  /\ modelMessageIndex > 1
                /\ messages[modelMessageIndex - 1].author = "user"
                /\ LET userMessageToResend == messages[modelMessageIndex - 1]
                       messagesBeforeRegen ==
                           SubSeq(messages, 1, modelMessageIndex - 2)
                   IN  /\ sessions' =
                             UpdateSessionMessages(sessions, activeSessionId[1],
                                 LAMBDA prev : messagesBeforeRegen)
                       /\ timers' = Append(timers,
                             [ messagesBeforeRegen |-> messagesBeforeRegen,
                               userInput |-> userMessageToResend.content,
                               attachments |->
                                  IF "files" \in DOMAIN userMessageToResend
                                  THEN userMessageToResend.files ELSE << >>,
                               activeSessionId |-> activeSessionId,
                               session |-> activeSession,
                               editingMessage |-> editingMessage ])
    /\ UNCHANGED <<activeSessionId, isLoading, error, editingMessage,
                   isCancelled, turns, now>>

\* the timeout queued by handleRegenerate fires: the handleSendMessage of the
\* render in which the button was clicked runs
\* Date.now() can read the value it read for the last turn only while that turn
\* has not come back from a backend call
SameMillisecond ==
    /\ turns # << >>
    /\ turns[Len(turns)].pc \in { "classify", "image", "open" }

TimerFires ==
    /\ timers # << >>
    /\ LET c == Head(timers)
       IN  HandleSendMessage(c.userInput, c.attachments, c.activeSessionId,
                             c.session, c.editingMessage,
                             IF SameMillisecond THEN { now, now + 1 }
                             ELSE { now + 1 })
    /\ timers' = Tail(timers)

\* the edit button of a user message -> handleEdit(message.id, message.content)
Edit ==
    /\ \E k \in 1..Len(messages) :
         /\ messages[k].author = "user"
         /\ ~IsGenerating(k)
         /\ editingMessage' =
              << [id |-> messages[k].id, content |-> messages[k].content] >>
    /\ UNCHANGED <<sessions, activeSessionId, isLoading, error, isCancelled,
                   turns, timers, now>>

CancelEdit ==
    /\ editingMessage # << >>
    /\ editingMessage' = << >>
    /\ UNCHANGED <<sessions, activeSessionId, isLoading, error, isCancelled,
                   turns, timers, now>>

\* the stop button, shown while isLoading -> handleCancelStream
CancelStream ==
    /\ isLoading
    /\ isCancelled' = TRUE
    /\ UNCHANGED <<sessions, activeSessionId, isLoading, error, editingMessage,
                   turns, timers, now>>

NewChat ==
    /\ activeSessionId' = << >>
    /\ editingMessage' = << >>
    /\ UNCHANGED <<sessions, isLoading, error, isCancelled, turns, timers, now>>

SelectSession ==
    /\ \E i \in 1..Len(sessions) :
         activeSessionId' = << sessions[i].id >>
    /\ editingMessage' = << >>
    /\ UNCHANGED <<sessions, isLoading, error, isCancelled, turns, timers, now>>

\* a handleDeleteSession that leaves the selection as it is
ActiveAfterDeleteStays(active, sessionId) == active

\* if (activeSessionId === sessionId) setActiveSessionId(null)
ActiveAfterDelete(active, sessionId) ==
    IF active = << sessionId >> THEN << >> ELSE active

DeleteSession ==
    /\ \E i \in 1..Len(sessions) :
         LET sessionId == sessions[i].id
         IN  /\ sessions' = SelectSeq(sessions, LAMBDA s : s.id # sessionId)
             /\ activeSessionId' =
                  ActiveAfterDelete(activeSessionId, sessionId)
    /\ UNCHANGED <<isLoading, error, editingMessage, isCancelled, turns,
                   timers, now>>

\* what RenameModal can submit: title.trim(), not empty
Titles == { "renamed" }

\* Sidebar's rename modal -> handleRenameSession(sessionId, newTitle)
RenameSession ==
    /\ \E i \in 1..Len(sessions), newTitle \in Titles :
         sessions' = [n \in 1..Len(sessions) |->
                        IF sessions[n].id = sessions[i].id
                        THEN Spread(sessions[n], [title |-> newTitle])
                        ELSE sessions[n]]
    /\ UNCHANGED <<activeSessionId, isLoading, error, editingMessage,
                   isCancelled, turns, timers, now>>

\* `!session.isPinned` of a session that may have no isPinned
IsPinned(s) == "isPinned" \in DOMAIN s /\ s.isPinned

\* the pin entry of a session's menu -> handlePinSession(id, !session.isPinned)
PinSession ==
    /\ \E i \in 1..Len(sessions) :
         sessions' = [n \in 1..Len(sessions) |->
                        IF sessions[n].id = sessions[i].id
                        THEN Spread(sessions[n],
                                    [isPinned |-> ~IsPinned(sessions[i])])
                        ELSE sessions[n]]
    /\ UNCHANGED <<activeSessionId, isLoading, error, editingMessage,
                   isCancelled, turns, timers, now>>

\* a getAiInstance that hands out the client whatever initError holds
getAiInstanceNeverThrows == FALSE

\* getAiInstance: if (initError || !ai) throw ...; `ai` is null exactly when
\* initError is set (geminiService.ts:8-17)
getAiInstanceThrows == initError # << >>

\* the service functions this step enters: generateRefinedPrompt when a
\* turn starts as a follow-up, generateImage or streamChatResponse when a
\* turn is routed, at its start or after the classifier
Entered ==
    { IF turns'[i].pc = "classify" THEN "generateContent"
      ELSE IF turns'[i].pc = "image" THEN "generateImages"
      ELSE "generateContentStream" :
        i \in { j \in 1..Len(turns') :
                  /\ turns'[j].pc \in { "classify", "image", "open" }
                  /\ j > Len(turns) \/ turns[j].pc # turns'[j].pc } }

\* each of them calls its method of ai.models once getAiInstance has
\* returned; the module's initError and the page's apiKeyError stay
Backend ==
    /\ calls' = IF getAiInstanceThrows THEN calls ELSE calls \cup Entered
    /\ UNCHANGED <<initError, apiKeyError>>

\* a save effect that writes only when a session was added or removed
SaveEffectOnCountChange(outcomes) ==
    /\ IF Len(sessions') # Len(sessions)
       THEN \E written \in outcomes :
               /\ storage' = IF written THEN << Stringify(sessions') >>
                             ELSE storage
               /\ saveFailed' = ~written
       ELSE UNCHANGED <<storage, saveFailed>>
    /\ app' = app

\* a save effect without its try block: the exception of setItem leaves the
\* effect and takes the application down
SaveEffectUncaught(outcomes) ==
    IF sessions' # sessions
    THEN \E written \in outcomes :
            /\ storage' = IF written THEN << Stringify(sessions') >>
                          ELSE storage
            /\ saveFailed' = ~written
            /\ app' = IF written THEN app ELSE "crashed"
    ELSE UNCHANGED <<storage, saveFailed, app>>

\* the save effect, which runs after every render in which `sessions` has
\* changed: try { localStorage.setItem(..., JSON.stringify(sessions)) }
\* catch (e) { console.error(...) }. `outcomes` says whether setItem can
\* succeed (TRUE) and whether it can throw (FALSE). A setSessions that
\* gives an equal collection writes the text the item already holds after a
\* successful write, so the model leaves the item alone then
SaveEffect(outcomes) ==
    /\ IF sessions' # sessions
       THEN \E written \in outcomes :
               /\ storage' = IF written THEN << Stringify(sessions') >>
                             ELSE storage
               /\ saveFailed' = ~written
       ELSE UNCHANGED <<storage, saveFailed>>
    /\ app' = app

\* localStorage.setItem succeeds
Written == { TRUE }

-----------------------------------------------------------------------------
(* The continuations of handleSendMessage after each await *)

\* the run returns: its local variables are gone, what stays is how it ended
Settle(i, outcome, threw) ==
    [turns EXCEPT ![i] =
        [ pc |-> "done",
          currentSessionId |-> turns[i].currentSessionId,
          modelMessageId |-> turns[i].modelMessageId,
          userInput |-> "",
          attachments |-> << >>,
          baseMessages |-> << >>,
          historyForAPI |-> << >>,
          promptForImage |-> "",
          originalPrompt |-> "",
          fullResponse |-> "",
          groundingChunksMap |-> << >>,
          chunks |-> << >>,
          threw |-> threw,
          outcome |-> outcome ]]

\* catch (err) { if (!isCancelledRef.current) {...} } finally { setIsLoading(false) }
Catch(i, err) ==
    LET tn == turns[i]
        errorMessage == ErrorMessage(err)
    IN  /\ IF CatchSurfaces(isCancelled)
           THEN /\ error' = errorMessage
                /\ sessions' =
                     UpdateSessionMessages(sessions, tn.currentSessionId,
                         LAMBDA prev : PatchMessage(prev, tn.modelMessageId,
                                   [content |-> "Error: " \o errorMessage]))
                /\ turns' = Settle(i, "error", TRUE)
           ELSE /\ UNCHANGED <<error, sessions>>
                /\ turns' = Settle(i, "cancelled", TRUE)
        /\ isLoading' = FALSE
        /\ UNCHANGED <<activeSessionId, editingMessage, isCancelled, timers, now>>

\* what happens inside generateRefinedPrompt: getAiInstance or generateContent
\* throws, or generateContent answers a text
ClassifierFailure == [threw |-> TRUE, text |-> ""]

ClassifierOutcomes ==
    { ClassifierFailure }
        \cup { [threw |-> FALSE, text |-> t] : t \in RefinedPrompts }

\* a generateRefinedPrompt whose catch hands the failure on as its result
generateRefinedPromptLeaks(outcome) ==
    IF outcome.threw THEN "Gemini AI client is not initialized."
    ELSE Trim(outcome.text)

\* try { ...; return response.text.trim() } catch { return "NO_MODIFICATION" }
generateRefinedPrompt(outcome) ==
    IF outcome.threw THEN NO_MODIFICATION ELSE Trim(outcome.text)

\* handleSendMessage after `await generateRefinedPrompt(...)` gave refinedResult
ClassifierResumes(i, refinedResult) ==
    /\ turns[i].pc = "classify"
    /\ LET tn == turns[i]
           isFollowUpImageRequest == refinedResult # NO_MODIFICATION
             routed == Route(sessions, tn.currentSessionId, tn.modelMessageId,
                             tn.userInput, tn.attachments,
                             isFollowUpImageRequest)
         IN  /\ sessions' = routed.sessions
             /\ turns' = [turns EXCEPT
                  ![i].pc = routed.pc,
                  ![i].promptForImage =
                      IF isFollowUpImageRequest THEN refinedResult
                      ELSE tn.userInput]
    /\ UNCHANGED <<activeSessionId, isLoading, error, editingMessage,
                   isCancelled, timers, now>>

\* generateRefinedPrompt resolves
ClassifierAnswers(i) ==
    \E outcome \in ClassifierOutcomes :
        /\ getAiInstanceThrows => outcome.threw
        /\ ClassifierResumes(i, generateRefinedPrompt(outcome))

\* { ...msg, content: 'Here is the image you requested.',
\*   attachments: [imageAttachment] }
ImageResult(imageAttachment) ==
    [ content |-> "Here is the image you requested.",
      attachments |-> << imageAttachment >> ]

\* generateImage resolves with the image bytes
ImageArrives(i) ==
    /\ turns[i].pc = "image"
    /\ ~getAiInstanceThrows
    /\ \E base64ImageBytes \in ImageBytes :
         LET tn == turns[i]
             imageAttachment ==
                 [ name |-> "Generated image for \""
                              \o Substring(tn.promptForImage, 0, TitleLen)
                              \o "...\"",
                   url  |-> "data:image/png;base64," \o base64ImageBytes,
                   type |-> "image/png" ]
         IN  IF ImageReturns(isCancelled)
             THEN /\ turns' = Settle(i, "cancelled", FALSE)
                  /\ UNCHANGED sessions
             ELSE /\ sessions' =
                       UpdateSessionMessages(sessions, tn.currentSessionId,
                           LAMBDA prev : PatchMessage(prev, tn.modelMessageId,
                               ImageResult(imageAttachment)))
                  /\ turns' = Settle(i, "success", FALSE)
    /\ isLoading' = FALSE
    /\ UNCHANGED <<activeSessionId, error, editingMessage, isCancelled,
                   timers, now>>

\* generateImage rejects (the request failed or returned no image)
ImageFails(i) ==
    /\ turns[i].pc = "image"
    /\ Catch(i, ImageError)

\* streamChatResponse resolves with the stream
StreamOpens(i) ==
    /\ turns[i].pc = "open"
    /\ ~getAiInstanceThrows
    /\ turns' = [turns EXCEPT ![i].pc = "stream"]
    /\ UNCHANGED <<sessions, activeSessionId, isLoading, error, editingMessage,
                   isCancelled, timers, now>>

\* streamChatResponse rejects
StreamOpenFails(i) ==
    /\ turns[i].pc = "open"
    /\ Catch(i, StreamOpenError)

\* one iteration of `for await (const chunk of stream)`
ChunkArrives(i, chunkSet, limit) ==
    /\ turns[i].pc = "stream"
    /\ isCancelled \/ Len(turns[i].chunks) < limit
    /\ \E chunk \in chunkSet :
         LET tn == turns[i]
             fullResponse == AppendText(tn.fullResponse, chunk)
             groundingChunksMap ==
                 ForEachGrounding(tn.groundingChunksMap, chunk.groundingChunks)
             aggregatedChunks == MapValues(groundingChunksMap)
         IN  IF LoopBreaks(isCancelled)
             THEN /\ turns' = Settle(i, "cancelled", FALSE)
                  /\ isLoading' = FALSE
                  /\ UNCHANGED sessions
             ELSE /\ sessions' =
                       UpdateSessionMessages(sessions, tn.currentSessionId,
                           LAMBDA prev : PatchMessage(prev, tn.modelMessageId,
                               [ content |-> fullResponse,
                                 groundingChunks |-> aggregatedChunks ]))
                  /\ turns' = [turns EXCEPT
                       ![i].fullResponse = fullResponse,
                       ![i].groundingChunksMap = groundingChunksMap,
                       ![i].chunks = Append(tn.chunks, chunk)]
                  /\ UNCHANGED isLoading
    /\ UNCHANGED <<activeSessionId, error, editingMessage, isCancelled,
                   timers, now>>

\* the stream is exhausted: the loop ends
StreamEnds(i) ==
    /\ turns[i].pc = "stream"
    /\ turns' = Settle(i, "success", FALSE)
    /\ isLoading' = FALSE
    /\ UNCHANGED <<sessions, activeSessionId, error, editingMessage,
                   isCancelled, timers, now>>

\* the stream iterator throws
StreamThrows(i, thrownSet) ==
    /\ turns[i].pc = "stream"
    /\ \E err \in thrownSet : Catch(i, err)

\* the whole application: every handler the user can reach, any number of
\* sessions, at most MaxTurns turns of at most MaxChunks plain chunks each
\* one conversation at a time: the stored sessions can be opened, none is
\* deleted and no new chat is begun
NextChat ==
    /\ \/ Submit(MaxTurns)
       \/ Regenerate(MaxTurns)
       \/ TimerFires
       \/ Edit
       \/ CancelEdit
       \/ CancelStream
       \/ SelectSession
       \/ \E i \in 1..Len(turns) : ClassifierAnswers(i)
       \/ \E i \in 1..Len(turns) : ImageArrives(i)
       \/ \E i \in 1..Len(turns) : ImageFails(i)
       \/ \E i \in 1..Len(turns) : StreamOpens(i)
       \/ \E i \in 1..Len(turns) : StreamOpenFails(i)
       \/ \E i \in 1..Len(turns) : ChunkArrives(i, { ChunkA }, MaxChunks - 1)
       \/ \E i \in 1..Len(turns) : StreamEnds(i)
       \/ \E i \in 1..Len(turns) : StreamThrows(i, { StreamInterrupted })
    /\ SaveEffect(Written)
    /\ Backend

SpecChat == Init /\ [][NextChat]_vars

Next ==
    \/ NextChat
    \/ /\ \/ NewChat
          \/ DeleteSession
          \/ RenameSession
          \/ PinSession
       /\ SaveEffect(Written)
       /\ Backend

Spec == Init /\ [][Next]_vars

-----------------------------------------------------------------------------
(* One text turn against a stream of chunks of every kind: the stream       *)
(* merger under every chunk sequence, cancellation and failure.             *)

\* the first submit, when it goes to the text backend
SubmitText == Submit(1) /\ turns'[1].pc = "open"

NextStream ==
    /\ \/ SubmitText
       \/ SelectSession
       \/ CancelStream
       \/ \E i \in 1..Len(turns) : StreamOpens(i)
       \/ \E i \in 1..Len(turns) : StreamOpenFails(i)
       \/ \E i \in 1..Len(turns) : ChunkArrives(i, Chunks, MaxChunks)
       \/ \E i \in 1..Len(turns) : StreamEnds(i)
       \/ \E i \in 1..Len(turns) : StreamThrows(i, Thrown)
    /\ SaveEffect(Written)
    /\ Backend

SpecStream == Init /\ [][NextStream]_vars

-----------------------------------------------------------------------------
(* Vocabulary of the properties *)

\* the run of handleSendMessage that this step starts, if it starts one
StartsTurn == Len(turns') = Len(turns) + 1

Started == turns'[Len(turns')]

\* this step is the timeout of handleRegenerate running handleSendMessage
RegenerateResubmits == timers # << >> /\ timers' = Tail(timers) /\ StartsTurn

\* this step is MessageInput's submit running handleSendMessage
SubmitStarts == timers' = timers /\ StartsTurn

\* the messages of the session a turn targets, << >> when it is gone
TargetMessages(ss, tn) ==
    IF FindSession(ss, tn.currentSessionId) = << >> THEN << >>
    ELSE FindSession(ss, tn.currentSessionId)[1].messages

TargetExists(ss, tn) == FindSession(ss, tn.currentSessionId) # << >>

\* the k-th message with text, counted from the front
NthWithText(msgs, k) ==
    CHOOSE n \in 1..Len(msgs) :
        /\ msgs[n].content # ""
        /\ Cardinality({ m \in 1..n : msgs[m].content # "" }) = k

\* h is, in order, the messages of msgs that have text, as role and text only
IsProjection(h, msgs) ==
    /\ Len(h) = Cardinality({ n \in 1..Len(msgs) : msgs[n].content # "" })
    /\ \A k \in 1..Len(h) :
         /\ DOMAIN h[k] = { "role", "parts" }
         /\ h[k].role = msgs[NthWithText(msgs, k)].author
         /\ h[k].parts = << [text |-> msgs[NthWithText(msgs, k)].content] >>

\* msgs is `before` followed by a user message with `text` and the turn's
\* placeholder (empty, or holding the status string of an image turn)
IsTurnAppended(msgs, before, text, tn) ==
    /\ Len(msgs) = Len(before) + 2
    /\ SubSeq(msgs, 1, Len(before)) = before
    /\ msgs[Len(msgs) - 1].author = "user"
    /\ msgs[Len(msgs) - 1].content = text
    /\ msgs[Len(msgs)].author = "model"
    /\ msgs[Len(msgs)].id = tn.modelMessageId
    /\ \/ msgs[Len(msgs)].content = ""
       \/ tn.pc = "image" /\ msgs[Len(msgs)].content = "Generating your image..."

-----------------------------------------------------------------------------
(* C1: when the turn re-submitted by a regeneration of the model message at *)
(* index i has applied its optimistic update, the session holds exactly the *)
(* messages before index i-1, then a new user message with the original     *)
(* text, then a new placeholder: the stale reply and the old copy of the    *)
(* user message are gone.                                                   *)
C1_RegenerateDropsStalePair ==
    [][ (RegenerateResubmits /\ TargetExists(sessions', Started))
          => IsTurnAppended(TargetMessages(sessions', Started),
                            Head(timers).messagesBeforeRegen,
                            Head(timers).userInput, Started) ]_vars

(* C2: the history a regenerated text turn passes to the text stream is the *)
(* projection of the messages before index i-1 only: neither the stale      *)
(* reply nor the preceding user message is in it.                           *)
C2_RegenerateHistoryIsPrefix ==
    [][ (RegenerateResubmits /\ Started.pc = "open")
          => IsProjection(Started.historyForAPI,
                          Head(timers).messagesBeforeRegen) ]_vars

\* the (content, citations) of every message with the turn's placeholder id
\* in the session the turn targets
Placeholders(ss, tn) ==
    { [content |-> TargetMessages(ss, tn)[n].content,
       groundingChunks |-> TargetMessages(ss, tn)[n].groundingChunks] :
         n \in { m \in 1..Len(TargetMessages(ss, tn)) :
                   TargetMessages(ss, tn)[m].id = tn.modelMessageId } }

\* turn i runs in this step
Resumes(i) == turns'[i] # turns[i]

Suspended(i) == turns[i].pc \in { "classify", "image", "open", "stream" }

\* turn i was streaming text and left its loop at the cancellation check
CancelledMidStream(i) ==
    turns[i].pc = "done" /\ turns[i].outcome = "cancelled" /\ ~turns[i].threw

\* turn i is the only turn started and not settled
OnlyTurn(i) ==
    /\ timers = << >>
    /\ \A j \in 1..Len(turns) : j # i => turns[j].pc = "done"

(* C3: once the cancellation flag is set while a text turn is streaming,    *)
(* a chunk of that stream that arrives writes nothing; and for as long as   *)
(* no other turn is started, no step changes the turn's placeholder: the    *)
(* content and citations it has in the next state are those it has now.     *)
C3_CancelFreezesPlaceholder ==
    [][ \A i \in 1..Len(turns) :
          (/\ isCancelled /\ isCancelled'
           /\ turns[i].pc = "stream" \/ CancelledMidStream(i))
            => /\ Resumes(i) => sessions' = sessions
               /\ OnlyTurn(i)
                    => Placeholders(sessions', turns[i])
                         \subseteq Placeholders(sessions, turns[i]) ]_vars

\* a turn was cancelled after its first chunk and the next chunk found the flag
C3_Witness ==
    \E i \in 1..Len(turns) :
        /\ CancelledMidStream(i)
        /\ isCancelled
        /\ \E p \in Placeholders(sessions, turns[i]) : p.content = "a"

(* C4: when the cancellation flag is set while a turn is suspended at any   *)
(* of its suspension points (classification, image generation, opening the  *)
(* stream, the next chunk), the turn, once it resumes, writes nothing to    *)
(* the session collection and surfaces no error.                            *)
C4_CancelledTurnWritesNothing ==
    [][ \A i \in 1..Len(turns) :
          (isCancelled /\ Suspended(i) /\ Resumes(i))
            => (sessions' = sessions /\ error' = error) ]_vars

(* C5: a backend call that fails while the cancellation flag is set         *)
(* produces no error: the error string and the session collection           *)
(* (the placeholder with it) are left as they are.                          *)
C5_CancelledFailureIsSilent ==
    [][ \A i \in 1..Len(turns) :
          (isCancelled /\ ~turns[i].threw /\ turns'[i].threw)
            => (error' = error /\ sessions' = sessions) ]_vars

\* a backend call of a cancelled turn has failed
C5_Witness ==
    \E i \in 1..Len(turns) :
        /\ turns[i].threw
        /\ turns[i].outcome = "cancelled"
        /\ isCancelled
        /\ error = Null

-----------------------------------------------------------------------------
(* The stream merger *)

\* the citation candidates of the chunks that carry a source URI, in order
RECURSIVE Candidates(_)
Candidates(chunks) ==
    IF chunks = << >> THEN << >>
    ELSE Candidates(SubSeq(chunks, 1, Len(chunks) - 1))
           \o SelectSeq(chunks[Len(chunks)].groundingChunks,
                        LAMBDA c : "web" \in DOMAIN c /\ c.web.uri # "")

\* the n-th position of cands at which a URI appears for the first time
NthFirstSeen(cands, k) ==
    CHOOSE n \in 1..Len(cands) :
        /\ \A m \in 1..(n - 1) : cands[m].web.uri # cands[n].web.uri
        /\ Cardinality({ m \in 1..n :
               \A l \in 1..(m - 1) : cands[l].web.uri # cands[m].web.uri }) = k

\* one entry per URI, in order of first appearance, as first seen
FirstSeen(cands) ==
    [k \in 1..Cardinality({ c.web.uri : c \in { cands[n] : n \in 1..Len(cands) } })
        |-> cands[NthFirstSeen(cands, k)]]

\* the text deltas of the chunks, one after the other
RECURSIVE ConcatText(_)
ConcatText(chunks) ==
    IF chunks = << >> THEN ""
    ELSE ConcatText(SubSeq(chunks, 1, Len(chunks) - 1))
           \o chunks[Len(chunks)].text

\* the citation list the loop shows after these chunks
RECURSIVE CitationsMap(_)
CitationsMap(chunks) ==
    IF chunks = << >> THEN << >>
    ELSE ForEachGrounding(CitationsMap(SubSeq(chunks, 1, Len(chunks) - 1)),
                          chunks[Len(chunks)].groundingChunks)

CitationsAfter(chunks) == MapValues(CitationsMap(chunks))

(* C6: when one streamed response delivers the same source URI in several  *)
(* candidates with different titles, the citation list of the message has   *)
(* one entry for the URI, with the first title seen, and the entries are in *)
(* the order in which their URIs first appeared.                            *)
C6_FirstSeenTitleWins ==
    \A i \in 1..Len(turns) :
        turns[i].pc = "stream"
          => \A p \in Placeholders(sessions, turns[i]) :
                p.groundingChunks = FirstSeen(Candidates(turns[i].chunks))

(* C7: in every state, no two citations of one message have the same source *)
(* URI, whatever chunks the stream delivered.                                *)
C7_CitationsUniqueByUri ==
    \A s \in 1..Len(sessions) :
        \A n \in 1..Len(sessions[s].messages) :
            LET msg == sessions[s].messages[n]
            IN  "groundingChunks" \in DOMAIN msg
                  => \A a, b \in 1..Len(msg.groundingChunks) :
                        a # b => msg.groundingChunks[a].web.uri
                                   # msg.groundingChunks[b].web.uri

\* a stream has repeated a URI and delivered a candidate without one, and the
\* message shows the two sources
C7_Witness ==
    \E i \in 1..Len(turns) :
        /\ turns[i].pc = "stream"
        /\ turns[i].chunks = << ChunkA, ChunkB >>
        /\ \E p \in Placeholders(sessions, turns[i]) :
              Len(p.groundingChunks) = 2

(* C8: while a text turn streams, its placeholder holds the concatenation   *)
(* of the text deltas of the chunks processed so far, in arrival order, and *)
(* the citation list of exactly those chunks: content and citations are of  *)
(* the same merge step in every state.                                      *)
C8_PlaceholderIsMergeOfChunks ==
    \A i \in 1..Len(turns) :
        turns[i].pc = "stream"
          => /\ Placeholders(sessions, turns[i]) # { }
             /\ \A p \in Placeholders(sessions, turns[i]) :
                   /\ p.content = ConcatText(turns[i].chunks)
                   /\ p.groundingChunks = CitationsAfter(turns[i].chunks)

\* two chunks with text have been merged
C8_Witness ==
    \E i \in 1..Len(turns) :
        /\ turns[i].pc = "stream"
        /\ ~isCancelled
        /\ turns[i].chunks = << ChunkA, ChunkC >>
        /\ \E p \in Placeholders(sessions, turns[i]) : p.content = "ab"

-----------------------------------------------------------------------------
(* C9: the history of a turn is, in order, the base messages that have      *)
(* text, each as its role and text only; the base messages are the messages *)
(* the target session holds before the turn's own user message and          *)
(* placeholder, which are its last two, so neither is in the history.       *)
C9_HistoryIsProjectionOfBase ==
    [][ StartsTurn
          => /\ IsProjection(Started.historyForAPI, Started.baseMessages)
             /\ TargetExists(sessions', Started)
                  => LET msgs == TargetMessages(sessions', Started)
                         base == Started.baseMessages
                     IN  /\ Len(msgs) = Len(base) + 2
                         /\ \A n \in 1..Len(base) :
                               /\ msgs[n].id = base[n].id
                               /\ msgs[n].author = base[n].author
                         /\ msgs[Len(msgs) - 1].author = "user"
                         /\ msgs[Len(msgs) - 1].content = Started.userInput
                         /\ msgs[Len(msgs)].id = Started.modelMessageId ]_vars

\* a turn whose base messages hold a message without text
C9_Witness ==
    \E i \in 1..Len(turns) :
        /\ turns[i].pc # "done"
        /\ \E n \in 1..Len(turns[i].baseMessages) :
              turns[i].baseMessages[n].content = ""
        /\ Len(turns[i].historyForAPI) = Len(turns[i].baseMessages) - 1

(* C10: submitting without attachments while the message at index i of the  *)
(* active session is being edited replaces the session's messages by those  *)
(* before index i, the new user message and a placeholder (i + 2 messages,  *)
(* with i counted from 0), and clears edit mode.                            *)
C10_EditSubmitTruncates ==
    [][ (/\ SubmitStarts
         /\ editingMessage # << >>
         /\ \E n \in 1..Len(messages) : messages[n].id = editingMessage[1].id)
          => LET i == CHOOSE n \in 1..Len(messages) :
                        /\ messages[n].id = editingMessage[1].id
                        /\ \A m \in 1..(n - 1) :
                              messages[m].id # editingMessage[1].id
                 after == TargetMessages(sessions', Started)
             IN  /\ IsTurnAppended(after, SubSeq(messages, 1, i - 1),
                                   Started.userInput, Started)
                 /\ Len(after) = (i - 1) + 2
                 /\ Len(Started.attachments) = 0
                 /\ editingMessage' = << >> ]_vars

\* the third message of a four-message conversation was edited into another
\* text and submitted
C10_Witness ==
    \E i \in 1..Len(turns) :
        /\ turns[i].pc # "done"
        /\ editingMessage = << >>
        /\ turns[i].baseMessages = SubSeq(StoredCancelled.messages, 1, 2)
        /\ LET msgs == TargetMessages(sessions, turns[i])
           IN  /\ Len(msgs) = 4
               /\ SubSeq(msgs, 1, 2) = SubSeq(StoredCancelled.messages, 1, 2)
               /\ msgs[3].content = "Draw a cat"
               /\ msgs[4].id = turns[i].modelMessageId

-----------------------------------------------------------------------------
(* Routing *)

\* the input holds an image keyword, in any case
HasKeyword(input) ==
    \E k \in 1..Len(imageKeywords) :
        Includes(ToLowerCase(input), imageKeywords[k])

\* the last base message is a model message with an image attachment and
\* the one before it is a user message
EndsWithImageReply(base) ==
    /\ Len(base) >= 2
    /\ base[Len(base)].author = "model"
    /\ "attachments" \in DOMAIN base[Len(base)]
    /\ \E n \in 1..Len(base[Len(base)].attachments) :
          StartsWith(base[Len(base)].attachments[n].type, "image/")
    /\ base[Len(base) - 1].author = "user"

(* C11: routing is the three-step procedure. (1) A turn without attachments *)
(* whose base messages end with a user message and a model message with an  *)
(* image asks the classifier, with that user message's text and the input;  *)
(* an answer other than the sentinel sends the turn to the image backend    *)
(* with the rewritten prompt. (2) Otherwise, and after the sentinel, an     *)
(* input with a keyword and no attachments goes to the image backend with   *)
(* the raw input. (3) Otherwise the turn opens a text stream. The           *)
(* classifier is asked in no other case and a turn that has gone to one     *)
(* backend never goes to the other.                                         *)
C11_RoutingIsThreeSteps ==
    [][ /\ StartsTurn =>
             LET tn == Started
                 ask == /\ EndsWithImageReply(tn.baseMessages)
                        /\ tn.attachments = << >>
                 img == HasKeyword(tn.userInput) /\ tn.attachments = << >>
             IN  /\ tn.pc = "classify" <=> ask
                 /\ ask => /\ tn.originalPrompt
                                = tn.baseMessages[Len(tn.baseMessages) - 1].content
                           /\ tn.promptForImage = tn.userInput
                 /\ tn.pc = "image" <=> (~ask /\ img)
                 /\ tn.pc = "image" => tn.promptForImage = tn.userInput
                 /\ tn.pc = "open" <=> (~ask /\ ~img)
        /\ \A i \in 1..Len(turns) :
             LET a == turns[i]
                 b == turns'[i]
                 img == HasKeyword(a.userInput) /\ a.attachments = << >>
             IN  /\ (a.pc = "classify" /\ b # a) =>
                       \/ /\ b.pc = "image"
                          /\ b.promptForImage \in RefinedPrompts
                          /\ b.promptForImage # NO_MODIFICATION
                       \/ /\ b.promptForImage = a.userInput
                          /\ b.pc = IF img THEN "image" ELSE "open"
                 /\ b.pc = "classify" => a.pc = "classify"
                 /\ a.pc = "image" => b.pc \in { "image", "done" }
                 /\ a.pc \in { "open", "stream" }
                      => b.pc \in { "open", "stream", "done" } ]_vars

\* a follow-up was rewritten by the classifier and is at the image backend
C11_Witness ==
    \E i \in 1..Len(turns) :
        /\ turns[i].pc = "image"
        /\ turns[i].userInput = "hi"
        /\ turns[i].originalPrompt = "Draw a cat"
        /\ turns[i].promptForImage = "a cat with a hat"

-----------------------------------------------------------------------------
(* Failures *)

\* turn i's backend call fails in this step
Fails(i) == ~turns[i].threw /\ turns'[i].threw

\* the messages `after` are `before` with the content of every message
\* addressed by id replaced by text, and nothing else changed
IsContentPatch(after, before, id, text) ==
    /\ Len(after) = Len(before)
    /\ \A n \in 1..Len(before) :
         after[n] = IF before[n].id = id
                    THEN [before[n] EXCEPT !.content = text]
                    ELSE before[n]

(* C12: when a backend call of a turn fails while the cancellation flag is  *)
(* not set, the error string is set, the content of the turn's placeholder  *)
(* becomes "Error: " and that string, and nothing else changes in the       *)
(* collection: the other messages of the session, its title and pin, and    *)
(* the other sessions are as before. The turn is over: nothing is retried.  *)
C12_FailureIsSurfacedInPlace ==
    [][ \A i \in 1..Len(turns) :
          /\ (Fails(i) /\ ~isCancelled) =>
                /\ error' # Null
                /\ turns'[i].pc = "done"
                /\ Len(sessions') = Len(sessions)
                /\ \A s \in 1..Len(sessions) :
                     IF sessions[s].id = turns[i].currentSessionId
                     THEN /\ IsContentPatch(sessions'[s].messages,
                                            sessions[s].messages,
                                            turns[i].modelMessageId,
                                            "Error: " \o error')
                          /\ [sessions'[s] EXCEPT !.messages = << >>]
                               = [sessions[s] EXCEPT !.messages = << >>]
                     ELSE sessions'[s] = sessions[s]
          /\ turns[i].pc = "done" => turns'[i] = turns[i] ]_vars

\* a turn in a conversation with earlier messages has failed and shows it
C12_Witness ==
    \E i \in 1..Len(turns) :
        /\ turns[i].outcome = "error"
        /\ error # Null
        /\ Len(TargetMessages(sessions, turns[i])) >= 4
        /\ \E p \in Placeholders(sessions, turns[i]) :
              p.content = "Error: " \o error

-----------------------------------------------------------------------------
(* Turns against each other: the MaxTurns submitted turns and one           *)
(* regeneration more, which the message list offers whatever isLoading is.  *)

NextRace ==
    /\ \/ SelectSession
       \/ Submit(MaxTurns)
       \/ Regenerate(MaxTurns + 1)
       \/ TimerFires
       \/ CancelStream
       \/ \E i \in 1..Len(turns) : ClassifierAnswers(i)
       \/ \E i \in 1..Len(turns) : ImageArrives(i)
       \/ \E i \in 1..Len(turns) : ImageFails(i)
       \/ \E i \in 1..Len(turns) : StreamOpens(i)
       \/ \E i \in 1..Len(turns) : StreamOpenFails(i)
       \/ \E i \in 1..Len(turns) : ChunkArrives(i, { ChunkA }, MaxChunks - 1)
       \/ \E i \in 1..Len(turns) : StreamEnds(i)
       \/ \E i \in 1..Len(turns) : StreamThrows(i, { StreamInterrupted })
    /\ SaveEffect(Written)
    /\ Backend

SpecRace == Init /\ [][NextRace]_vars

\* the turns that have started and not settled
InFlight == { i \in 1..Len(turns) : turns[i].pc # "done" }

(* C13: at most one turn is in flight in every state: while a turn is       *)
(* dispatching, generating an image or streaming, no action the UI offers   *)
(* (send, edit-submit, regenerate of any message) starts a second one.      *)
C13_OneTurnInFlight == Cardinality(InFlight) <= 1

-----------------------------------------------------------------------------
(* Startup and persistence: the application from before its first render,   *)
(* over a localStorage that holds anything and whose writes can fail.       *)

\* setItem succeeds, or throws (quota exceeded, storage disabled)
WrittenOrNot == { TRUE, FALSE }

\* what the item 'chatSessions' can hold when the page is opened: nothing,
\* the empty string, a text that is no JSON, JSON that is no array, or a
\* collection an earlier visit saved
DurableRecords ==
    { << >>,
      << InvalidText("") >>,
      << InvalidText("{oops") >>,
      << ObjectText >> }
    \cup { << Stringify(c) >> : c \in StoredCollections }

InitStorage ==
    /\ sessions = << >>
    /\ activeSessionId = << >>
    /\ isLoading = FALSE
    /\ error = Null
    /\ editingMessage = << >>
    /\ isCancelled = FALSE
    /\ turns = << >>
    /\ timers = << >>
    /\ now = 2
    /\ storage \in DurableRecords
    /\ saveFailed = FALSE
    /\ app = "unmounted"
    /\ initError = << >>
    /\ apiKeyError = Null
    /\ calls = { }

\* getApiKeyError: initError ? initError.message : null
getApiKeyError == IF initError # << >> THEN initError[1] ELSE Null

\* the effect of App.tsx:31-36 in the first render:
\* if (errorMsg) setApiKeyError(errorMsg)
ConfigEffect ==
    /\ apiKeyError' = IF getApiKeyError # Null /\ getApiKeyError # ""
                      THEN getApiKeyError ELSE apiKeyError
    /\ UNCHANGED <<initError, calls>>

\* the first render and its effects: the load effect reads the item and, if
\* JSON.parse accepts it, sets `sessions` to whatever it gave; the save
\* effect of the first render writes the empty collection; the second
\* render, if `sessions` was set, calls sessions.find, which throws unless
\* the value is an array, and its save effect writes the loaded collection
Mount(outcomes) ==
    /\ app = "unmounted"
    /\ LET loads   == Truthy(storage) /\ ~ParseThrows(storage[1])
           loaded  == IF loads THEN Parse(storage[1]) ELSE << >>
           renders == ~loads \/ storage[1].kind = "array"
       IN  /\ sessions' = loaded
           /\ app' = IF renders THEN "running" ELSE "crashed"
           /\ \E first \in outcomes, second \in outcomes :
                LET afterFirst == IF first THEN << Stringify(<< >>) >>
                                  ELSE storage
                IN  IF loads /\ renders
                    THEN /\ storage' = IF second THEN << Stringify(loaded) >>
                                       ELSE afterFirst
                         /\ saveFailed' = ~second
                    ELSE /\ storage' = afterFirst
                         /\ saveFailed' = ~first
    /\ UNCHANGED <<activeSessionId, isLoading, error, editingMessage,
                   isCancelled, turns, timers, now>>

\* the handlers and callbacks that run once the page is up
Handlers ==
    \/ Submit(1)
    \/ Regenerate(1)
    \/ TimerFires
    \/ SelectSession
    \/ NewChat
    \/ DeleteSession
    \/ RenameSession
    \/ PinSession
    \/ \E i \in 1..Len(turns) : ClassifierAnswers(i)
    \/ \E i \in 1..Len(turns) : ImageArrives(i)
    \/ \E i \in 1..Len(turns) : ImageFails(i)
    \/ \E i \in 1..Len(turns) : StreamOpens(i)
    \/ \E i \in 1..Len(turns) : StreamOpenFails(i)
    \/ \E i \in 1..Len(turns) : ChunkArrives(i, { ChunkA }, MaxChunks - 1)
    \/ \E i \in 1..Len(turns) : StreamEnds(i)
    \/ \E i \in 1..Len(turns) : StreamThrows(i, { StreamInterrupted })

NextStorage ==
    \/ Mount(WrittenOrNot) /\ ConfigEffect
    \/ /\ app = "running"
       /\ Handlers
       /\ SaveEffect(WrittenOrNot)
       /\ Backend

SpecStorage == InitStorage /\ [][NextStorage]_vars

-----------------------------------------------------------------------------
(* C14: the item is a snapshot of the whole collection *)

\* C14: after every change to the session collection (create, turn update,
\* rename, pin, delete, regenerate truncation) the save effect overwrites the
\* item with the serialization of the whole current collection: unless the
\* last write failed, the item is the serialization of `sessions`
C14_StoredIsSnapshot ==
    (app = "running" /\ ~saveFailed) => storage = << Stringify(sessions) >>

\* a loaded conversation was renamed, pinned and cut by a regeneration whose
\* turn is streaming, and the item holds all of it
C14_Witness ==
    /\ app = "running"
    /\ ~saveFailed
    /\ storage = << Stringify(sessions) >>
    /\ \E n \in 1..Len(sessions) :
         /\ sessions[n].title = "renamed"
         /\ IsPinned(sessions[n])
         /\ Len(sessions[n].messages) = 4
         /\ sessions[n].messages[3].content = "Draw a cat"
    /\ \E i \in 1..Len(turns) : turns[i].pc = "image"

-----------------------------------------------------------------------------
(* C15: saving and loading back *)

\* the message `loaded` is the message `saved` but for its file handles
SameButHandles(loaded, saved) ==
    /\ DOMAIN loaded = DOMAIN saved
    /\ \A f \in DOMAIN saved \ { "files" } : loaded[f] = saved[f]
    /\ "files" \in DOMAIN saved =>
          /\ Len(loaded.files) = Len(saved.files)
          /\ \A k \in 1..Len(loaded.files) : DOMAIN loaded.files[k] = { }

-----------------------------------------------------------------------------
(* C16: File objects and the item *)

\* the messages of the collection the item holds
StoredMessages ==
    IF storage = << >> \/ storage[1].kind # "array" THEN { }
    ELSE UNION { { storage[1].value[n].messages[k] :
                     k \in 1..Len(storage[1].value[n].messages) } :
                 n \in 1..Len(storage[1].value) }

SentWithAttachments(m) ==
    /\ m.author = "user"
    /\ "attachments" \in DOMAIN m
    /\ Len(m.attachments) > 0

\* C16: the record the item holds of a message that was sent with
\* attachments has no `files` field
C16_NoFilesFieldStored ==
    \A m \in StoredMessages : SentWithAttachments(m) => "files" \notin DOMAIN m

-----------------------------------------------------------------------------
(* C17: what the page makes of an item it cannot use *)

\* the item is the serialization of a session collection
WellFormed(item) == item # << >> /\ item[1].kind = "array"

\* C17: when the item is absent, is no JSON, or is JSON but no session
\* collection, the page starts with the empty collection and keeps running
C17_LoadFailsSoft ==
    [][ (app = "unmounted" /\ ~WellFormed(storage))
            => (app' = "running" /\ sessions' = << >>) ]_vars

-----------------------------------------------------------------------------
(* C18: a write that fails *)

\* C18: when localStorage.setItem throws, the item keeps what it held and
\* nothing else differs: the step is the step of a handler, with the
\* collection, the active session and the turns that handler gives, and the
\* application keeps running
C18_FailedWriteIsSwallowed ==
    [][ (app = "running" /\ sessions' # sessions /\ saveFailed')
            => (app' = "running" /\ storage' = storage /\ Handlers) ]_vars

\* a turn has streamed a chunk into the active session after a write failed:
\* the item is behind the collection
C18_Witness ==
    /\ app = "running"
    /\ saveFailed
    /\ storage # << Stringify(sessions) >>
    /\ activeSession # << >>
    /\ \E i \in 1..Len(turns) : turns[i].pc = "stream"
    /\ Len(messages) = 2
    /\ messages[2].content = "a"

-----------------------------------------------------------------------------
(* C19: the session a turn goes to *)

\* handleSendMessage finds no session to update: `activeSessionId` and
\* `sessions` are those of the render whose handleSendMessage runs, which for
\* the timeout of handleRegenerate is the render of the click
ResolvesToNoSession ==
    IF RegenerateResubmits
    THEN Head(timers).activeSessionId = << >> \/ Head(timers).session = << >>
    ELSE activeSession = << >>

\* C19: a turn submitted with no active session (or with an active id that
\* resolves to no session) creates exactly one session, unpinned and at the
\* head of the collection, which becomes the active one and receives the
\* turn; a turn submitted with an active session creates none and leaves
\* the number of sessions as it was
C19_TargetSessionResolved ==
    [][ StartsTurn =>
          IF ResolvesToNoSession
          THEN /\ Len(sessions') = Len(sessions) + 1
               /\ Tail(sessions') = sessions
               /\ ~sessions'[1].isPinned
               /\ sessions'[1].id \notin { sessions[n].id : n \in 1..Len(sessions) }
               /\ activeSessionId' = << sessions'[1].id >>
               /\ Started.currentSessionId = sessions'[1].id
               /\ Len(sessions'[1].messages) = 2
               /\ sessions'[1].messages[1].author = "user"
               /\ sessions'[1].messages[1].content = Started.userInput
               /\ sessions'[1].messages[2].id = Started.modelMessageId
          ELSE /\ Len(sessions') = Len(sessions)
               /\ \A n \in 1..Len(sessions) : sessions'[n].id = sessions[n].id
               /\ activeSessionId' = activeSessionId ]_vars

\* the first turn of a new chat has made a session ahead of the loaded one
C19_Witness ==
    /\ Len(sessions) = 2
    /\ sessions[2] = StoredChat
    /\ ~sessions[1].isPinned
    /\ activeSessionId = << sessions[1].id >>
    /\ Len(turns) = 1
    /\ turns[1].currentSessionId = sessions[1].id
    /\ turns[1].pc = "open"
    /\ Len(sessions[1].messages) = 2

-----------------------------------------------------------------------------
(* C20: the title of a new session, over first messages around 40 characters *)

\* the first n characters of abcdefghijabcdefghij...
RECURSIVE Typed(_)
Typed(n) ==
    IF n = 0 THEN ""
    ELSE Typed(n - 1) \o SubSeq("abcdefghij", ((n - 1) % 10) + 1,
                                               ((n - 1) % 10) + 1)

\* first messages of 39, 40, 41 and 50 characters
LongInputs ==
    { Typed(TitleLen - 1), Typed(TitleLen), Typed(TitleLen + 1),
      Typed(TitleLen + 10) }

\* MessageInput.handleSubmit with one of them
SubmitLong(limit) ==
    /\ ~isLoading
    /\ Len(turns) + Len(timers) < limit
    /\ \E input \in LongInputs :
         HandleSendMessage(Trim(input), << >>, activeSessionId,
                           activeSession, editingMessage, { now + 1 })
    /\ UNCHANGED timers

NextTitle ==
    /\ \/ SubmitLong(MaxTurns)
       \/ NewChat
       \/ CancelStream
       \/ \E i \in 1..Len(turns) : StreamOpens(i)
       \/ \E i \in 1..Len(turns) : StreamOpenFails(i)
       \/ \E i \in 1..Len(turns) : ChunkArrives(i, { ChunkA }, MaxChunks - 1)
       \/ \E i \in 1..Len(turns) : StreamEnds(i)
       \/ \E i \in 1..Len(turns) : StreamThrows(i, { StreamInterrupted })
    /\ SaveEffect(Written)
    /\ Backend

SpecTitle == Init /\ [][NextTitle]_vars

\* C20: the title of a session made for a first message is the message
\* itself when it has at most 40 characters, and its first 40 characters
\* followed by "..." when it has more; a message of exactly 40 characters
\* gets no ellipsis
C20_TitleIsInputOrCut ==
    [][ (StartsTurn /\ ResolvesToNoSession) =>
          LET input == Started.userInput
              title == sessions'[1].title
          IN  /\ Len(input) <= TitleLen => title = input
              /\ Len(input) > TitleLen =>
                    /\ Len(title) = TitleLen + Len("...")
                    /\ SubSeq(title, 1, TitleLen) = SubSeq(input, 1, TitleLen)
                    /\ SubSeq(title, TitleLen + 1, Len(title)) = "..." ]_vars

\* a session made for a first message of 50 characters, whose answer streams
C20_Witness ==
    /\ sessions # << >>
    /\ sessions[1].title = Typed(TitleLen) \o "..."
    /\ Len(sessions[1].messages) = 2
    /\ sessions[1].messages[1].content = Typed(TitleLen + 10)
    /\ sessions[1].messages[2].content = "a"

-----------------------------------------------------------------------------
(* C21: the classifier call that fails *)

\* C21: when the call inside generateRefinedPrompt fails, the function gives
\* the sentinel; handleSendMessage sets no error and writes no error text
\* to the placeholder, does not settle the turn, and goes on as it does
\* after a NO_MODIFICATION answer: the prompt is the raw input and the turn
\* goes to the image backend only for an input with a keyword
C21_ClassifierFailureIsSilent ==
    [][ \A i \in 1..Len(turns) :
          ClassifierResumes(i, generateRefinedPrompt(ClassifierFailure)) =>
            /\ generateRefinedPrompt(ClassifierFailure) = NO_MODIFICATION
            /\ ClassifierResumes(i, NO_MODIFICATION)
            /\ error' = error
            /\ isLoading' = isLoading
            /\ ~turns'[i].threw
            /\ turns'[i].outcome = "none"
            /\ turns'[i].promptForImage = turns[i].userInput
            /\ turns'[i].pc =
                 IF HasKeyword(turns[i].userInput)
                      /\ turns[i].attachments = << >>
                 THEN "image" ELSE "open"
            /\ \A after \in Placeholders(sessions', turns[i]) :
                 \/ after \in Placeholders(sessions, turns[i])
                 \/ /\ turns'[i].pc = "image"
                    /\ after.content = "Generating your image..." ]_vars

\* a follow-up to an image reply whose classifier call is over: with the
\* sentinel the turn asks for a text stream and no error is shown
C21_Witness ==
    \E i \in 1..Len(turns) :
        /\ turns[i].originalPrompt = "Draw a cat"
        /\ turns[i].userInput = "hi"
        /\ turns[i].pc = "open"
        /\ turns[i].promptForImage = "hi"
        /\ error = Null
        /\ Placeholders(sessions, turns[i]) # { }
        /\ \A ph \in Placeholders(sessions, turns[i]) : ph.content = ""

-----------------------------------------------------------------------------
(* C22: a client that could not be configured *)

\* what the module's initialisation leaves in initError: nothing, the
\* message of geminiService.ts:16, or an Error of the GoogleGenAI constructor
\* (here one whose message is empty, which `if (errorMsg)` lets through)
ConfigErrors ==
    { << >>,
      << "API_KEY environment variable not set. Please configure it in your Vercel project settings." >>,
      << "" >> }

InitConfig ==
    /\ sessions = << >>
    /\ activeSessionId = << >>
    /\ isLoading = FALSE
    /\ error = Null
    /\ editingMessage = << >>
    /\ isCancelled = FALSE
    /\ turns = << >>
    /\ timers = << >>
    /\ now = 2
    /\ storage \in { << >>, << Stringify(<< StoredChat >>) >> }
    /\ saveFailed = FALSE
    /\ app = "unmounted"
    /\ initError \in ConfigErrors
    /\ apiKeyError = Null
    /\ calls = { }

\* App.tsx:281: with apiKeyError set the page renders the error screen only,
\* and none of the controls that run a handler
ControlsRendered == apiKeyError = Null

NextConfig ==
    \/ Mount(Written) /\ ConfigEffect
    \/ /\ app = "running"
       /\ \/ ControlsRendered /\ Submit(MaxTurns)
          \/ ControlsRendered /\ Regenerate(MaxTurns)
          \/ ControlsRendered /\ SelectSession
          \/ ControlsRendered /\ CancelStream
          \/ TimerFires
          \/ \E i \in 1..Len(turns) : ClassifierAnswers(i)
          \/ \E i \in 1..Len(turns) : ImageArrives(i)
          \/ \E i \in 1..Len(turns) : ImageFails(i)
          \/ \E i \in 1..Len(turns) : StreamOpens(i)
          \/ \E i \in 1..Len(turns) : StreamOpenFails(i)
          \/ \E i \in 1..Len(turns) : ChunkArrives(i, { ChunkA }, MaxChunks - 1)
          \/ \E i \in 1..Len(turns) : StreamEnds(i)
          \/ \E i \in 1..Len(turns) : StreamThrows(i, { StreamInterrupted })
       /\ SaveEffect(Written)
       /\ Backend

SpecConfig == InitConfig /\ [][NextConfig]_vars

\* C22: with initError set, no method of ai.models is ever called: the error
\* screen leaves no control to submit a turn with, and a turn that is
\* submitted all the same gets no stream and no image and never settles as
\* a success
C22_NoBackendCallWhenMisconfigured ==
    initError # << >> =>
        /\ calls = { }
        /\ apiKeyError # Null => turns = << >> /\ timers = << >>
        /\ \A i \in 1..Len(turns) :
             /\ turns[i].pc # "stream"
             /\ turns[i].outcome # "success"

\* a follow-up turn was submitted to a client that is not there: it has
\* settled with the error of streamChatResponse and nothing was called
C22_Witness ==
    /\ initError # << >>
    /\ calls = { }
    /\ \E i \in 1..Len(turns) :
         /\ turns[i].pc = "done"
         /\ turns[i].outcome = "error"
    /\ error = StreamOpenError.message
    /\ Len(messages) = Len(StoredChat.messages) + 2
    /\ messages[Len(messages) - 1].content = "hi"
    /\ messages[Len(messages)].content = "Error: " \o StreamOpenError.message

-----------------------------------------------------------------------------
(* C23: the content of a settled turn's message *)

\* C23: once a turn has settled, as a success, an error or cancelled, the
\* model message it created has content that is not empty
C23_SettledIsNonEmpty ==
    \A i \in 1..Len(turns) :
        turns[i].pc = "done" =>
            \A ph \in Placeholders(sessions, turns[i]) : ph.content # ""

-----------------------------------------------------------------------------
(* C24: ids made from Date.now() *)

\* no two entries of a sequence of sessions or of messages have the same id
DistinctIds(seq) ==
    \A a, b \in 1..Len(seq) : seq[a].id = seq[b].id => a = b

\* C24: the sessions of the collection have pairwise distinct ids and so
\* have the messages of each session, whenever the turns were submitted
C24_IdsAreDistinct ==
    /\ DistinctIds(sessions)
    /\ \A n \in 1..Len(sessions) : DistinctIds(sessions[n].messages)

-----------------------------------------------------------------------------
(* C25: the session list of the sidebar *)

\* the order of the characters of a title under localeCompare: the space,
\* the full stop, then the letters, upper and lower case together
Collation == " .abcdefghijklmnopqrstuvwxyz"

Rank(c) == CHOOSE i \in 1..Len(Collation) : SubSeq(Collation, i, i) = LowerChar(c)

\* a.localeCompare(b): by the letters first, a prefix before what it begins;
\* for the same letters, lower case before upper case
RECURSIVE CompareBy(_, _, _)
CompareBy(a, b, upperLast) ==
    IF Len(a) = 0 /\ Len(b) = 0 THEN 0
    ELSE IF Len(a) = 0 THEN 0 - 1
    ELSE IF Len(b) = 0 THEN 1
    ELSE LET x == SubSeq(a, 1, 1)
             y == SubSeq(b, 1, 1)
         IN  IF Rank(x) < Rank(y) THEN 0 - 1
             ELSE IF Rank(x) > Rank(y) THEN 1
             ELSE IF upperLast /\ x # y
             THEN (IF x = LowerChar(x) THEN 0 - 1 ELSE 1)
             ELSE CompareBy(Tail(a), Tail(b), upperLast)

LocaleCompare(a, b) ==
    IF CompareBy(a, b, FALSE) # 0 THEN CompareBy(a, b, FALSE)
    ELSE CompareBy(a, b, TRUE)

\* Array.prototype.sort((a, b) => a.title.localeCompare(b.title)), which is
\* stable: the sorted array with one more element put after its equals
RECURSIVE SortByTitle(_)
SortByTitle(arr) ==
    IF Len(arr) <= 1 THEN arr
    ELSE LET front  == SortByTitle(SubSeq(arr, 1, Len(arr) - 1))
             last   == arr[Len(arr)]
             before == { n \in 1..Len(front) :
                           LocaleCompare(front[n].title, last.title) <= 0 }
             at     == IF before = { } THEN 0
                       ELSE CHOOSE n \in before : \A m \in before : m <= n
         IN  SubSeq(front, 1, at) \o << last >>
                 \o SubSeq(front, at + 1, Len(front))

\* a sidebar that leaves the pinned sessions in collection order
pinnedSessionsUnsorted == SelectSeq(sessions, IsPinned)

\* sessions.filter(s => s.isPinned).sort(...): filter gives a new array and
\* sort orders that array, not `sessions`
pinnedSessions == SortByTitle(SelectSeq(sessions, IsPinned))

\* sessions.filter(s => !s.isPinned)
recentSessions == SelectSeq(sessions, LAMBDA s : ~IsPinned(s))

\* the session items in the order the sidebar renders them
SessionList == pinnedSessions \o recentSessions

\* titles of earlier chats: the same letters in another case, a prefix of
\* another title, a title with a space
SidebarTitles == { "hi", "Hi", "hi there", "Draw a cat" }

\* two chats of an earlier visit, the newer one first
InitSidebar ==
    /\ \E newer \in SidebarTitles, older \in SidebarTitles :
         sessions =
            << [StoredCancelled EXCEPT !.id = SessionId(1), !.title = newer],
               [StoredCancelled EXCEPT !.id = SessionId(0), !.title = older] >>
    /\ activeSessionId = << >>
    /\ isLoading = FALSE
    /\ error = Null
    /\ editingMessage = << >>
    /\ isCancelled = FALSE
    /\ turns = << >>
    /\ timers = << >>
    /\ now = 2
    /\ storage = << Stringify(sessions) >>
    /\ saveFailed = FALSE
    /\ app = "running"
    /\ initError = << >>
    /\ apiKeyError = Null
    /\ calls = { }

\* the sidebar's controls, and one new chat begun with a text turn
NextSidebar ==
    /\ \/ SubmitText
       \/ DeleteSession
       \/ RenameSession
       \/ PinSession
       \/ \E i \in 1..Len(turns) : StreamOpens(i)
       \/ \E i \in 1..Len(turns) : StreamOpenFails(i)
       \/ \E i \in 1..Len(turns) : ChunkArrives(i, { ChunkA }, MaxChunks - 1)
       \/ \E i \in 1..Len(turns) : StreamEnds(i)
    /\ SaveEffect(Written)
    /\ Backend

SpecSidebar == InitSidebar /\ [][NextSidebar]_vars

\* where a session of the list is in the collection
PositionOf(id) == CHOOSE n \in 1..Len(sessions) : sessions[n].id = id

\* C25: the list shows every session of the collection once; the pinned
\* sessions come before the others, in the order of their titles, and the
\* others are in the order of the collection, newest first
C25_SessionListOrder ==
    LET list == SessionList
    IN  /\ Len(list) = Len(sessions)
        /\ \A n \in 1..Len(sessions) :
             Cardinality({ k \in 1..Len(list) : list[k] = sessions[n] }) = 1
        /\ \A a, b \in 1..Len(list) :
             a < b =>
               /\ IsPinned(list[b]) => IsPinned(list[a])
               /\ IsPinned(list[a]) /\ IsPinned(list[b]) =>
                     LocaleCompare(list[a].title, list[b].title) <= 0
               /\ ~IsPinned(list[a]) /\ ~IsPinned(list[b]) =>
                     PositionOf(list[a].id) < PositionOf(list[b].id)

\* a new chat "hi" was begun and pinned next to the pinned "Hi" and
\* "hi there" of earlier visits, and the newer of those was renamed and is
\* not pinned: the list is hi, Hi, hi there, renamed
C25_Witness ==
    /\ Len(sessions) = 3
    /\ sessions[1].title = "hi" /\ IsPinned(sessions[1])
    /\ sessions[2].title = "hi there" /\ IsPinned(sessions[2])
    /\ sessions[3].title = "Hi" /\ IsPinned(sessions[3])
    /\ SessionList = << sessions[1], sessions[3], sessions[2] >>
    /\ Len(sessions[1].messages) = 2
    /\ sessions[1].messages[2].content = "a"

-----------------------------------------------------------------------------
(* C26: the optimistic update and the backend *)

\* the messages of the session turn tn targets are those the turn started
\* from, then its user message, then its placeholder
HoldsTurn(ss, tn) ==
    LET msgs == TargetMessages(ss, tn)
        base == tn.baseMessages
    IN  /\ TargetExists(ss, tn)
        /\ Len(msgs) = Len(base) + 2
        /\ \A k \in 1..Len(base) : msgs[k].id = base[k].id
        /\ msgs[Len(msgs) - 1].author = "user"
        /\ msgs[Len(msgs) - 1].content = tn.userInput
        /\ msgs[Len(msgs)].author = "model"
        /\ msgs[Len(msgs)].id = tn.modelMessageId
        /\ \/ msgs[Len(msgs)].content = ""
           \/ /\ tn.pc = "image"
              /\ msgs[Len(msgs)].content = "Generating your image..."

\* C26: a turn enters no service function before its optimistic update: the
\* step that starts a turn leaves the user message and the placeholder in
\* the target session, and a call that is made in a later step (the image
\* or the stream after the classifier) is made by a turn that started before
C26_UpdateBeforeBackend ==
    [][ /\ StartsTurn => HoldsTurn(sessions', Started)
        /\ calls' # calls => 
              \/ StartsTurn
              \/ \E i \in 1..Len(turns) : turns[i].pc = "classify" /\ Resumes(i)
      ]_vars

\* a follow-up is at the classifier: the call is out and the session holds
\* the user message and the empty placeholder
C26_Witness ==
    \E i \in 1..Len(turns) :
        /\ turns[i].pc = "classify"
        /\ "generateContent" \in calls
        /\ HoldsTurn(sessions, turns[i])
        /\ TargetMessages(sessions, turns[i])
              [Len(TargetMessages(sessions, turns[i]))].content = ""

-----------------------------------------------------------------------------
(* C27: a visit that loads a chat with an uploaded file, with backends that *)
(* answer or fail and streams that end                                      *)

\* the chat of an earlier visit in which a.png was sent along with "hi"
UploadChat ==
    [ id |-> SessionId(0), title |-> "hi", isPinned |-> FALSE,
      messages |->
        << UserMessage(0, "hi", << CHOOSE f \in Files : TRUE >>),
           [id |-> ModelId(0), author |-> "model", content |-> "hello",
            groundingChunks |-> << >>] >> ]

InitRestore ==
    /\ sessions = << >>
    /\ activeSessionId = << >>
    /\ isLoading = FALSE
    /\ error = Null
    /\ editingMessage = << >>
    /\ isCancelled = FALSE
    /\ turns = << >>
    /\ timers = << >>
    /\ now = 2
    /\ storage \in { << Stringify(<< UploadChat >>) >>,
                     << Stringify(<< StoredChat >>) >> }
    /\ saveFailed = FALSE
    /\ app = "unmounted"
    /\ initError = << >>
    /\ apiKeyError = Null
    /\ calls = { }

\* what the user does
UserActs ==
    \/ Submit(MaxTurns)
    \/ Regenerate(MaxTurns)
    \/ SelectSession
    \/ CancelStream

\* what happens without the user: the page mounts, a timeout fires, a
\* backend answers or fails, a stream gives a chunk or ends
Progress ==
    \/ Mount(Written) /\ ConfigEffect
    \/ /\ app = "running"
       /\ \/ TimerFires
          \/ \E i \in 1..Len(turns) : ClassifierAnswers(i)
          \/ \E i \in 1..Len(turns) : ImageArrives(i)
          \/ \E i \in 1..Len(turns) : ImageFails(i)
          \/ \E i \in 1..Len(turns) : StreamOpens(i)
          \/ \E i \in 1..Len(turns) : StreamOpenFails(i)
          \/ \E i \in 1..Len(turns) : ChunkArrives(i, { ChunkA }, MaxChunks - 1)
          \/ \E i \in 1..Len(turns) : StreamEnds(i)
          \/ \E i \in 1..Len(turns) : StreamThrows(i, { StreamInterrupted })
       /\ SaveEffect(Written)
       /\ Backend

NextRestore ==
    \/ /\ app = "running"
       /\ UserActs
       /\ SaveEffect(Written)
       /\ Backend
    \/ Progress

SpecRestore == InitRestore /\ [][NextRestore]_vars /\ WF_vars(Progress)

\* C27: the loading indicator that a turn sets is cleared again, whatever
\* the attachments the turn was given
C27_EveryTurnSettles == isLoading ~> ~isLoading

-----------------------------------------------------------------------------
(* C28: the image turn and its status string                                *)

GeneratingStatus == "Generating your image..."

\* the messages of the turn's session that carry its placeholder id
PlaceholderMessages(ss, tn) ==
    LET msgs == TargetMessages(ss, tn)
    IN  { msgs[n] : n \in { m \in 1..Len(msgs) :
                               msgs[m].id = tn.modelMessageId } }

\* turn i enters generateImage in this step
EntersImage(i) ==
    /\ turns'[i].pc = "image"
    /\ i > Len(turns) \/ turns[i].pc # "image"

\* the image of turn i arrives in this step and the flag is not set
ImageSucceeds(i) ==
    /\ i <= Len(turns)
    /\ turns[i].pc = "image"
    /\ turns'[i].pc = "done"
    /\ turns'[i].outcome = "success"

IsImageAttachment(a) ==
    /\ a.type = "image/png"
    /\ StartsWith(a.url, "data:image/png;base64,")
    /\ Len(a.url) > Len("data:image/png;base64,")

\* C28: in the step in which a turn calls generateImage its placeholder
\* reads the status string; when the image arrives and the turn is not
\* cancelled, the placeholder reads the final text and has exactly one
\* attachment, an image, under the id and author it had; and no turn that
\* ended as success or error has the status string as its content
C28_ImageTurnStatusThenResult ==
    [][ \A i \in 1..Len(turns') :
          LET after == PlaceholderMessages(sessions', turns'[i])
          IN  /\ EntersImage(i) =>
                    \A m \in after : m.content = GeneratingStatus
              /\ ImageSucceeds(i) =>
                    /\ \A m \in after :
                          /\ m.content = "Here is the image you requested."
                          /\ "attachments" \in DOMAIN m
                          /\ Len(m.attachments) = 1
                          /\ IsImageAttachment(m.attachments[1])
                    /\ { [id |-> m.id, author |-> m.author] : m \in after }
                         = { [id |-> m.id, author |-> m.author] :
                               m \in PlaceholderMessages(sessions, turns[i]) }
              /\ (turns'[i].pc = "done"
                   /\ turns'[i].outcome \in { "success", "error" }) =>
                    \A m \in after : m.content # GeneratingStatus ]_vars

-----------------------------------------------------------------------------
(* C29: the stop button, then a regeneration: the timeout of                *)
(* handleRegenerate runs while the flag set by the stop button is still set *)

NextCancel ==
    /\ \/ SelectSession
       \/ Submit(MaxTurns)
       \/ Regenerate(MaxTurns + 1)
       \/ isCancelled /\ TimerFires
       \/ CancelStream
       \/ \E i \in 1..Len(turns) : ClassifierAnswers(i)
       \/ \E i \in 1..Len(turns) : ImageArrives(i)
       \/ \E i \in 1..Len(turns) : ImageFails(i)
       \/ \E i \in 1..Len(turns) : StreamOpens(i)
       \/ \E i \in 1..Len(turns) : StreamOpenFails(i)
       \/ \E i \in 1..Len(turns) : ChunkArrives(i, { ChunkA }, MaxChunks - 1)
       \/ \E i \in 1..Len(turns) : StreamEnds(i)
       \/ \E i \in 1..Len(turns) : StreamThrows(i, { StreamInterrupted })
    /\ SaveEffect(Written)
    /\ Backend

SpecCancel == Init /\ [][NextCancel]_vars

\* turn i waits at an await that is followed by a test of the flag
AwaitsFlagCheck(i) == turns[i].pc \in { "image", "open", "stream" }

\* C29: a turn that was stopped by the user and after which another turn
\* has started (every turn but the last one, here) writes nothing when it
\* resumes: its placeholder keeps its text and citations and no error is set
C29_CancelledStaysCancelled ==
    [][ \A i \in 1..Len(turns) :
          (i < Len(turns) /\ AwaitsFlagCheck(i) /\ Resumes(i))
            => /\ Placeholders(sessions', turns[i])
                    = Placeholders(sessions, turns[i])
               /\ error' = error ]_vars

-----------------------------------------------------------------------------
(* C30: turns while the user moves between the sessions of the sidebar      *)

NextFrame ==
    /\ \/ Submit(MaxTurns)
       \/ Regenerate(MaxTurns)
       \/ TimerFires
       \/ NewChat
       \/ SelectSession
       \/ CancelStream
       \/ \E i \in 1..Len(turns) : ClassifierAnswers(i)
       \/ \E i \in 1..Len(turns) : ImageArrives(i)
       \/ \E i \in 1..Len(turns) : ImageFails(i)
       \/ \E i \in 1..Len(turns) : StreamOpens(i)
       \/ \E i \in 1..Len(turns) : StreamOpenFails(i)
       \/ \E i \in 1..Len(turns) : ChunkArrives(i, { ChunkA }, MaxChunks - 1)
       \/ \E i \in 1..Len(turns) : StreamEnds(i)
       \/ \E i \in 1..Len(turns) : StreamThrows(i, { StreamInterrupted })
    /\ SaveEffect(Written)
    /\ Backend

SpecFrame == Init /\ [][NextFrame]_vars

\* the sessions other than `id`, in their order
OtherSessions(ss, id) == SelectSeq(ss, LAMBDA s : s.id # id)

\* title and pinned flag of the sessions with this id
TitleAndPin(ss, id) ==
    { [title |-> ss[n].title, isPinned |-> IsPinned(ss[n])] :
        n \in { m \in 1..Len(ss) : ss[m].id = id } }

\* a step of the turn that targets `id` leaves all but the messages of `id`
WritesOnlyTo(id) ==
    /\ OtherSessions(sessions', id) = OtherSessions(sessions, id)
    /\ TitleAndPin(sessions, id) # { }
         => TitleAndPin(sessions', id) = TitleAndPin(sessions, id)

\* C30: a step in which a turn starts or resumes changes nothing but the
\* messages of the session the turn took as its target when it was
\* submitted, whichever session is selected by then; and selecting a
\* session or starting a new chat changes no session
C30_TurnWritesOnlyItsSession ==
    [][ /\ \A i \in 1..Len(turns) :
             Resumes(i) => WritesOnlyTo(turns[i].currentSessionId)
        /\ StartsTurn => WritesOnlyTo(Started.currentSessionId)
        /\ (turns' = turns /\ timers' = timers) => sessions' = sessions
      ]_vars

\* a turn streams into its session while the user is in another chat
C30_Witness ==
    \E i \in 1..Len(turns) :
        /\ turns[i].pc = "stream"
        /\ Len(sessions) >= 2
        /\ activeSessionId # << turns[i].currentSessionId >>
        /\ \E p \in Placeholders(sessions, turns[i]) : p.content = "a"

-----------------------------------------------------------------------------
(* C31: sessions are deleted while turns run                                *)

NextDelete ==
    /\ \/ Submit(MaxTurns)
       \/ Regenerate(MaxTurns)
       \/ TimerFires
       \/ SelectSession
       \/ DeleteSession
       \/ CancelStream
       \/ \E i \in 1..Len(turns) : ClassifierAnswers(i)
       \/ \E i \in 1..Len(turns) : ImageArrives(i)
       \/ \E i \in 1..Len(turns) : ImageFails(i)
       \/ \E i \in 1..Len(turns) : StreamOpens(i)
       \/ \E i \in 1..Len(turns) : StreamOpenFails(i)
       \/ \E i \in 1..Len(turns) : ChunkArrives(i, { ChunkA }, MaxChunks - 1)
       \/ \E i \in 1..Len(turns) : StreamEnds(i)
       \/ \E i \in 1..Len(turns) : StreamThrows(i, { StreamInterrupted })
    /\ SaveEffect(Written)
    /\ Backend

SpecDelete == Init /\ [][NextDelete]_vars

\* the ids of the collection
SessionIds(ss) == { ss[n].id : n \in 1..Len(ss) }

\* C31: an id enters the collection only with the session that a starting
\* turn creates under a clock value later than every earlier one, so an id
\* that was deleted does not come back; and a turn whose session is not in
\* the collection leaves the collection as it is when it starts or resumes
C31_DeleteIsFinal ==
    [][ /\ \A id \in SessionIds(sessions') \ SessionIds(sessions) :
              /\ StartsTurn
              /\ now' > now
              /\ id = SessionId(now')
              /\ Started.currentSessionId = id
              /\ \A i \in 1..Len(turns) : turns[i].currentSessionId # id
        /\ \A i \in 1..Len(turns) :
              (Resumes(i) /\ ~TargetExists(sessions, turns[i]))
                 => sessions' = sessions ]_vars

\* a turn has received text and its session is not in the collection
C31_Witness ==
    \E i \in 1..Len(turns) :
        /\ turns[i].pc = "stream"
        /\ turns[i].fullResponse = "a"
        /\ ~TargetExists(sessions, turns[i])

-----------------------------------------------------------------------------
(* C32: the selected session                                                *)

\* every action of the sidebar and of the chat window, over backends that
\* answer
NextActive ==
    /\ \/ NewChat
       \/ SelectSession
       \/ Submit(MaxTurns)
       \/ Regenerate(MaxTurns)
       \/ TimerFires
       \/ RenameSession
       \/ PinSession
       \/ DeleteSession
       \/ \E i \in 1..Len(turns) : ClassifierAnswers(i)
       \/ \E i \in 1..Len(turns) : ImageArrives(i)
       \/ \E i \in 1..Len(turns) : StreamOpens(i)
       \/ \E i \in 1..Len(turns) : ChunkArrives(i, { ChunkA }, MaxChunks - 1)
       \/ \E i \in 1..Len(turns) : StreamEnds(i)
    /\ SaveEffect(Written)
    /\ Backend

SpecActive == Init /\ [][NextActive]_vars

\* C32: activeSessionId is null or the id of a session of the collection
C32_ActiveSessionExists ==
    activeSessionId = << >> \/ activeSessionId[1] \in SessionIds(sessions)

\* the session of a turn was deleted while it was selected, and others remain
C32_Witness ==
    /\ activeSessionId = << >>
    /\ sessions # << >>
    /\ \E i \in 1..Len(turns) :
          /\ turns[i].pc # "done"
          /\ ~TargetExists(sessions, turns[i])

-----------------------------------------------------------------------------
(* C33: a first visit: nothing is stored, and the user submits, edits,      *)
(* regenerates and stops                                                    *)

InitEmpty ==
    /\ sessions = << >>
    /\ activeSessionId = << >>
    /\ isLoading = FALSE
    /\ error = Null
    /\ editingMessage = << >>
    /\ isCancelled = FALSE
    /\ turns = << >>
    /\ timers = << >>
    /\ now = 2
    /\ storage = << Stringify(<< >>) >>
    /\ saveFailed = FALSE
    /\ app = "running"
    /\ initError = << >>
    /\ apiKeyError = Null
    /\ calls = { }

NextAlternate ==
    /\ \/ Submit(MaxTurns + 1)
       \/ Regenerate(MaxTurns + 1)
       \/ TimerFires
       \/ Edit
       \/ CancelEdit
       \/ CancelStream
       \/ \E i \in 1..Len(turns) : ClassifierAnswers(i)
       \/ \E i \in 1..Len(turns) : ImageArrives(i)
       \/ \E i \in 1..Len(turns) : StreamOpens(i)
       \/ \E i \in 1..Len(turns) : StreamOpenFails(i)
       \/ \E i \in 1..Len(turns) : ChunkArrives(i, { ChunkA }, MaxChunks - 1)
       \/ \E i \in 1..Len(turns) : StreamEnds(i)
    /\ SaveEffect(Written)
    /\ Backend

SpecAlternate == InitEmpty /\ [][NextAlternate]_vars

\* user, model, user, model, ...: an even number of messages
Alternates(msgs) ==
    /\ Len(msgs) % 2 = 0
    /\ \A k \in 1..Len(msgs) :
          msgs[k].author = IF k % 2 = 1 THEN "user" ELSE "model"

\* C33: the messages of every session are pairs of a user message and the
\* model message that answers it
C33_MessagesAlternate ==
    \A n \in 1..Len(sessions) : Alternates(sessions[n].messages)

\* the second turn was an edited or regenerated first message: the session
\* was cut back and holds one pair again
C33_Witness ==
    /\ Len(turns) = 2
    /\ turns[2].pc = "done"
    /\ \E n \in 1..Len(sessions) :
          /\ sessions[n].id = turns[2].currentSessionId
          /\ sessions[n].id = turns[1].currentSessionId
          /\ Len(sessions[n].messages) = 2

=============================================================================
